---- MODULE Spec2Model ----
(***************************************************************************)
(* Model of the wave alert engine of waves-on-map (src/wave_alert.py):     *)
(* the opening-hours parser and predicate, exceedance detection, window    *)
(* expansion, weather collocation and the run() orchestration, together    *)
(* with the start-up of the module (load_config and the module globals)    *)
(* and the scheduler thread of src/app_map.py that calls run().            *)
(*                                                                         *)
(* Strings are sequences of one-character strings, so that strip, split,   *)
(* lower and the time-range regular expression are computed as Python      *)
(* computes them.  Datetimes are minutes since Monday 2025-03-24 00:00 UTC.*)
(* Wave heights are in decimetres.                                         *)
(***************************************************************************)
EXTENDS Integers, Sequences, FiniteSets, TLC

VARIABLES
    \* ---- _parse_opening_hours ----
    oh_spec,       \* the spec string handed to _parse_opening_hours
    oh_pc,         \* "idle" | "start" | "rules" | "done"
    oh_rules,      \* rule_sep entries not yet applied
    days_map,      \* weekday (0=Mon) -> list of (start, end)
    oh_kind,       \* "none" | "always" | "is_open" | "raised"
    oh_last,       \* the rule applied by the latest loop iteration (<<>> if none)
    \* ---- module globals ----
    IS_OPEN,       \* the callable built at import: [kind, dm]
    smtp_cfg,      \* CFG["smtp"]: which of user, pass, to are set
    start_pc,      \* the import of wave_alert: "idle" | "load" | "parse" |
                   \* "ready" | "raised"
    config_file,   \* the file at CONFIG_PATH: [exists, readable, opening_hours]
    CFG,           \* the dict returned by load_config: [opening_hours]
    \* ---- process_location ----
    loc_pc,        \* "idle" | "fetch_waves" | "fetch_forecast" | "detect" |
                   \* "expand" | "collocate" | "table" | "done"
    wave_list,     \* list(waves_info.data)
    weather_list,  \* list(weather_info.data)
    exceed_indices,
    wave_objs,
    weather_map,   \* the dict of line 385, in insertion order
    loc_result,    \* [status, agg] once process_location has ended
    \* ---- run ----
    run_pc,        \* "idle" | "start" | "loop" | "finish" | "returned" | "raised"
    db_exists,     \* DB_PATH.exists()
    store,         \* the ids of the rows of table locations, ascending
    forecast,      \* location id -> what the two fetches give for it
    limit,         \* the argument of run: <<>> for None, <<n>> for n
    locs,          \* the list returned by load_locations
    loc_i,         \* number of iterations of the loop of line 412 done
    aggregates,
    total_exceed,
    send_calls,    \* number of calls of send_email
    report,        \* the [subject, body, html_body] handed to send_email, oldest first
    outbox,        \* the messages accepted by the SMTP server
    log,           \* the lines printed, oldest first
    \* ---- alert_scheduler ----
    runs,          \* number of calls of run made by the process
    \* ---- app_map ----
    scheduled_tasks, \* the environment variable SCHEDULED_TASKS is set
    thread_pc,     \* scheduler_thread: "not_started" | "first_run" |
                   \* "register" | "sleep" | "dead"
    jobs,          \* number of jobs held by the default scheduler of schedule
    due,           \* how many of them have their next run in the past
    late_start     \* the process was started at or after 16:00

oh_vars == <<oh_spec, oh_pc, oh_rules, days_map, oh_kind, oh_last>>

cfg_vars == <<IS_OPEN, smtp_cfg, start_pc, config_file, CFG>>

loc_vars == <<loc_pc, wave_list, weather_list, exceed_indices, wave_objs,
              weather_map, loc_result>>

run_vars == <<run_pc, db_exists, store, forecast, limit, locs, loc_i, aggregates,
              total_exceed, send_calls, report, outbox, log>>

sched_vars == <<runs>>

map_vars == <<scheduled_tasks, thread_pc, jobs, due, late_start>>

vars == <<oh_spec, oh_pc, oh_rules, days_map, oh_kind, oh_last,
          IS_OPEN, smtp_cfg, start_pc, config_file, CFG,
          loc_pc, wave_list, weather_list, exceed_indices, wave_objs,
          weather_map, loc_result,
          run_pc, db_exists, store, forecast, limit, locs, loc_i, aggregates,
          total_exceed, send_calls, report, outbox, log, runs,
          scheduled_tasks, thread_pc, jobs, due, late_start>>

-----------------------------------------------------------------------------
(* Characters and Python string primitives *)

Digits == {"0", "1", "2", "3", "4", "5", "6", "7", "8", "9"}

DigitVal(c) ==
    CASE c = "0" -> 0 [] c = "1" -> 1 [] c = "2" -> 2 [] c = "3" -> 3
      [] c = "4" -> 4 [] c = "5" -> 5 [] c = "6" -> 6 [] c = "7" -> 7
      [] c = "8" -> 8 [] c = "9" -> 9

UpperChars == <<"A","B","C","D","E","F","G","H","I","J","K","L","M",
                "N","O","P","Q","R","S","T","U","V","W","X","Y","Z">>
LowerChars == <<"a","b","c","d","e","f","g","h","i","j","k","l","m",
                "n","o","p","q","r","s","t","u","v","w","x","y","z">>

\* str.isspace for one character
IsSpace(c) == c \in {" ", "\t", "\n"}

\* str.lower for one character
LowerChar(c) ==
    IF \E i \in 1..26 : UpperChars[i] = c
    THEN LowerChars[CHOOSE i \in 1..26 : UpperChars[i] = c]
    ELSE c

\* str.lower
Lower(s) == IF Len(s) = 0 THEN <<>> ELSE [i \in 1..Len(s) |-> LowerChar(s[i])]

RECURSIVE LStrip(_)
LStrip(s) ==
    IF s = <<>> THEN s
    ELSE IF IsSpace(Head(s)) THEN LStrip(Tail(s)) ELSE s

RECURSIVE RStrip(_)
RStrip(s) ==
    IF s = <<>> THEN s
    ELSE IF IsSpace(s[Len(s)]) THEN RStrip(SubSeq(s, 1, Len(s) - 1)) ELSE s

\* str.strip()
Strip(s) == RStrip(LStrip(s))

\* index of the first occurrence of c in s, 0 if none
IndexOf(s, c) ==
    IF \E i \in 1..Len(s) : s[i] = c
    THEN CHOOSE i \in 1..Len(s) : s[i] = c /\ \A j \in 1..(i - 1) : s[j] # c
    ELSE 0

\* str.split(c): keeps empty pieces
RECURSIVE SplitOn(_, _)
SplitOn(s, c) ==
    LET i == IndexOf(s, c)
    IN  IF i = 0 THEN <<s>>
        ELSE <<SubSeq(s, 1, i - 1)>> \o SplitOn(SubSeq(s, i + 1, Len(s)), c)

\* str.split(c, 1): at most one split
SplitOnce(s, c) ==
    LET i == IndexOf(s, c)
    IN  IF i = 0 THEN <<s>>
        ELSE <<SubSeq(s, 1, i - 1), SubSeq(s, i + 1, Len(s))>>

\* index of the first whitespace character of s, Len(s)+1 if none
FirstSpace(s) ==
    IF \E i \in 1..Len(s) : IsSpace(s[i])
    THEN CHOOSE i \in 1..Len(s) : IsSpace(s[i]) /\ \A j \in 1..(i - 1) : ~IsSpace(s[j])
    ELSE Len(s) + 1

\* str.split(): split on runs of whitespace, no empty pieces
RECURSIVE SplitWS(_)
SplitWS(s) ==
    LET t == LStrip(s)
    IN  IF t = <<>> THEN <<>>
        ELSE LET i == FirstSpace(t)
             IN  <<SubSeq(t, 1, i - 1)>> \o SplitWS(SubSeq(t, i, Len(t)))

\* ",".join(toks)
RECURSIVE JoinComma(_)
JoinComma(toks) ==
    IF toks = <<>> THEN <<>>
    ELSE IF Len(toks) = 1 THEN toks[1]
    ELSE toks[1] \o <<",">> \o JoinComma(Tail(toks))

-----------------------------------------------------------------------------
(* _parse_opening_hours, src/wave_alert.py:87-181 *)

\* the keys of DAY_IDX in index order (wave_alert.py:111)
DayNames == << <<"M","o">>, <<"T","u">>, <<"W","e">>, <<"T","h">>,
               <<"F","r">>, <<"S","a">>, <<"S","u">> >>

\* `tok in DAY_IDX`
InDayIdx(tok) == \E i \in 1..7 : DayNames[i] = tok

\* DAY_IDX[tok]; only defined for keys of DAY_IDX
DAY_IDX(tok) == (CHOOSE i \in 1..7 : DayNames[i] = tok) - 1

TokALL == <<"A","L","L">>
TokOff == <<"o","f","f">>
Tok247 == <<"2","4","/","7">>

\* list(range(a, b)) for a <= b
RangeList(a, b) == IF b <= a THEN <<>> ELSE [i \in 1..(b - a) |-> a + i - 1]

EmptyDaysMap == [d \in 0..6 |-> <<>>]

\* any(ch.isdigit() for ch in tok)
HasDigit(tok) == \E i \in 1..Len(tok) : tok[i] \in Digits

\* rule_sep = [r.strip() for r in spec.split(";") if r.strip()]
RECURSIVE StripNonEmpty(_)
StripNonEmpty(rs) ==
    IF rs = <<>> THEN <<>>
    ELSE IF Strip(Head(rs)) = <<>> THEN StripNonEmpty(Tail(rs))
    ELSE <<Strip(Head(rs))>> \o StripNonEmpty(Tail(rs))

\* the rules taken from the last to the first
rule_sep_reversed(spec) ==
    LET rs == StripNonEmpty(SplitOn(spec, ";"))
    IN  IF rs = <<>> THEN <<>> ELSE [k \in 1..Len(rs) |-> rs[Len(rs) + 1 - k]]

rule_sep(spec) == StripNonEmpty(SplitOn(spec, ";"))

\* day_tokens / time_tokens of a rule whose parts is non-empty (lines 122-127)
day_tokens(parts) ==
    IF HasDigit(parts[1]) THEN <<TokALL>> ELSE SplitOn(parts[1], ",")

\* the first token never taken as a time token
time_tokens_after_first(parts) == IF Len(parts) > 1 THEN Tail(parts) ELSE <<>>

time_tokens(parts) ==
    IF HasDigit(parts[1]) THEN parts
    ELSE IF Len(parts) > 1 THEN Tail(parts) ELSE <<>>

\* a guard that accepts a range with one known end
day_range_guard_either(a, b) == InDayIdx(a) \/ InDayIdx(b)

\* the guard of line 137
day_range_guard(a, b) == InDayIdx(a) /\ InDayIdx(b)

\* a range that runs backwards taken for the whole week
day_range_whole_week(ai, bi) ==
    IF ai <= bi THEN RangeList(ai, bi + 1) ELSE RangeList(0, 7)

\* lines 138-142: the weekdays of the range a-b, wrapping over Sunday
day_range(ai, bi) ==
    IF ai <= bi THEN RangeList(ai, bi + 1)
    ELSE RangeList(ai, 7) \o RangeList(0, bi + 1)

\* lines 129-144: the loop over day_tokens.  err is TRUE when a statement of
\* the loop raises (unpacking of the split, or a DAY_IDX lookup of a missing key)
RECURSIVE expand_days(_, _)
expand_days(toks, days) ==
    IF toks = <<>> THEN [err |-> FALSE, days |-> days]
    ELSE LET tok == Strip(Head(toks))
         IN  IF tok = TokALL THEN [err |-> FALSE, days |-> RangeList(0, 7)]
             ELSE IF IndexOf(tok, "-") # 0
             THEN LET ab == SplitOnce(tok, "-")
                  IN  IF Len(ab) # 2 THEN [err |-> TRUE, days |-> days]
                      ELSE IF day_range_guard(ab[1], ab[2])
                      THEN IF ~InDayIdx(ab[1]) \/ ~InDayIdx(ab[2])
                           THEN [err |-> TRUE, days |-> days]
                           ELSE expand_days(Tail(toks),
                                    days \o day_range(DAY_IDX(ab[1]), DAY_IDX(ab[2])))
                      ELSE expand_days(Tail(toks), days)
             ELSE IF InDayIdx(tok)
             THEN expand_days(Tail(toks), Append(days, DAY_IDX(tok)))
             ELSE expand_days(Tail(toks), days)

\* no fallback: a rule without a recognised day applies to no weekday
days_as_found(days) == days

\* lines 145-146: the fallback when no day was recognised
days_or_fallback(days) == IF days = <<>> THEN RangeList(0, 7) ELSE days

\* off compared without lower()
has_off_exact(ttoks) == \E i \in 1..Len(ttoks) : ttoks[i] = TokOff

\* line 148
has_off(ttoks) == \E i \in 1..Len(ttoks) : Lower(ttoks[i]) = TokOff

IsDigitAt(s, p) == p <= Len(s) /\ s[p] \in Digits
IsCharAt(s, p, c) == p <= Len(s) /\ s[p] = c

\* length of the match of \d{1,2} at p that is followed by ":" (0 if none)
HourLen(s, p) ==
    IF IsDigitAt(s, p) /\ IsDigitAt(s, p + 1) /\ IsCharAt(s, p + 2, ":") THEN 2
    ELSE IF IsDigitAt(s, p) /\ IsCharAt(s, p + 1, ":") THEN 1
    ELSE 0

Num(s, p, n) ==
    IF n = 1 THEN DigitVal(s[p]) ELSE 10 * DigitVal(s[p]) + DigitVal(s[p + 1])

\* time_pat.match at position p (line 115): <<>> or <<h1, m1, h2, m2, end>>
\* where end is the first position after the match
time_pat_at(s, p) ==
    LET n1 == HourLen(s, p)
        q  == p + n1 + 1            \* first minute digit of the start
        r  == q + 3                 \* first hour digit of the end
        n2 == HourLen(s, r)
        t  == r + n2 + 1            \* first minute digit of the end
    IN  IF /\ n1 > 0
           /\ IsDigitAt(s, q) /\ IsDigitAt(s, q + 1)
           /\ IsCharAt(s, q + 2, "-")
           /\ n2 > 0
           /\ IsDigitAt(s, t) /\ IsDigitAt(s, t + 1)
        THEN <<Num(s, p, n1), Num(s, q, 2), Num(s, r, n2), Num(s, t, 2), t + 2>>
        ELSE <<>>

\* time_pat.finditer(joined): the non-overlapping matches, left to right
RECURSIVE time_pat_finditer(_, _)
time_pat_finditer(s, p) ==
    IF p > Len(s) THEN <<>>
    ELSE LET m == time_pat_at(s, p)
         IN  IF m = <<>> THEN time_pat_finditer(s, p + 1)
             ELSE <<m>> \o time_pat_finditer(s, m[5])

\* the condition of line 159 without the comparison of start and end
range_accepted_any_order(start, end) ==
    0 <= start /\ start < 24 * 60 /\ 0 <= end /\ end <= 24 * 60

\* the condition of line 159
range_accepted(start, end) ==
    0 <= start /\ start < 24 * 60 /\ 0 <= end /\ end <= 24 * 60 /\ start < end

\* lines 160-161: days_map[d].append((start, end)) for d in days
RECURSIVE append_for_days(_, _, _)
append_for_days(dm, days, rng) ==
    IF days = <<>> THEN dm
    ELSE append_for_days([dm EXCEPT ![Head(days)] = Append(@, rng)], Tail(days), rng)

\* lines 155-161: the loop over the regex matches
RECURSIVE add_ranges(_, _, _)
add_ranges(dm, days, ms) ==
    IF ms = <<>> THEN dm
    ELSE LET m == Head(ms)
             start == m[1] * 60 + m[2]
             end == m[3] * 60 + m[4]
         IN  IF range_accepted(start, end)
             THEN add_ranges(append_for_days(dm, days, <<start, end>>), days, Tail(ms))
             ELSE add_ranges(dm, days, Tail(ms))

\* lines 149-150: days_map[d] = [] for d in days
clear_days(dm, days) ==
    [d \in 0..6 |-> IF \E i \in 1..Len(days) : days[i] = d THEN <<>> ELSE dm[d]]

\* the weekdays a rule applies to (lines 118-146); err as in expand_days
rule_days(rule) ==
    LET parts == SplitWS(rule)
        ex == expand_days(day_tokens(parts), <<>>)
    IN  [err |-> ex.err, days |-> days_or_fallback(ex.days)]

\* one iteration of `for rule in rule_sep` (lines 116-161)
apply_rule(dm, rule) ==
    LET parts == SplitWS(rule)
    IN  IF parts = <<>> THEN [err |-> FALSE, dm |-> dm]
        ELSE LET rd == rule_days(rule)
                 ttoks == time_tokens(parts)
             IN  IF rd.err THEN [err |-> TRUE, dm |-> dm]
                 ELSE IF has_off(ttoks)
                 THEN [err |-> FALSE, dm |-> clear_days(dm, rd.days)]
                 ELSE [err |-> FALSE,
                       dm |-> add_ranges(dm, rd.days,
                                  time_pat_finditer(JoinComma(ttoks), 1))]

\* tuple order of sorted(): by start, then by end
PairLE(x, y) == x[1] < y[1] \/ (x[1] = y[1] /\ x[2] <= y[2])

RECURSIVE InsertPair(_, _)
InsertPair(sorted, x) ==
    IF sorted = <<>> THEN <<x>>
    ELSE IF PairLE(x, Head(sorted)) THEN <<x>> \o sorted
    ELSE <<Head(sorted)>> \o InsertPair(Tail(sorted), x)

\* sorted(days_map[d]) (line 164)
RECURSIVE SortPairs(_)
SortPairs(rngs) ==
    IF rngs = <<>> THEN <<>>
    ELSE InsertPair(SortPairs(SubSeq(rngs, 1, Len(rngs) - 1)), rngs[Len(rngs)])

Max2(a, b) == IF a >= b THEN a ELSE b
Min2(a, b) == IF a <= b THEN a ELSE b

\* the end of the absorbed interval taken as it is
merged_end_latest(last_end, e) == e

\* `max(merged[-1][1], e)` (line 170)
merged_end(last_end, e) == Max2(last_end, e)

\* an interval that starts where the last one ends kept apart
starts_after_or_at(s, last_end) == s >= last_end

\* `s > merged[-1][1]` (line 167)
starts_after(s, last_end) == s > last_end

\* the merge sweep of lines 165-170
RECURSIVE merge_sweep(_, _)
merge_sweep(rngs, merged) ==
    IF rngs = <<>> THEN merged
    ELSE LET s == Head(rngs)[1]
             e == Head(rngs)[2]
             n == Len(merged)
         IN  IF merged = <<>> \/ starts_after(s, merged[n][2])
             THEN merge_sweep(Tail(rngs), Append(merged, <<s, e>>))
             ELSE merge_sweep(Tail(rngs),
                      [merged EXCEPT ![n] = <<merged[n][1], merged_end(merged[n][2], e)>>])

\* lines 163-171
normalize(dm) == [d \in 0..6 |-> merge_sweep(SortPairs(dm[d]), <<>>)]

\* datetime.weekday() and hour * 60 + minute of a local datetime
weekday(dt) == (dt \div 1440) % 7
minute_of_day(dt) == dt % 1440

\* an interval closed at its end
interval_contains_closed(s, e, minute) == s <= minute /\ minute <= e

\* `s <= minute < e` (line 177)
interval_contains(s, e, minute) == s <= minute /\ minute < e

\* is_open evaluated on a weekday and a minute of the day (lines 173-179)
is_open_at(dm, day, minute) ==
    \E i \in 1..Len(dm[day]) : interval_contains(dm[day][i][1], dm[day][i][2], minute)

\* the callable returned by _parse_opening_hours, applied to a local datetime:
\* kind "always" is the lambda of line 100 or `always` of line 107
predicate(kind, dm, dt) ==
    IF kind = "always" THEN TRUE ELSE is_open_at(dm, weekday(dt), minute_of_day(dt))

\* the loop of lines 116-161 over all rules
RECURSIVE apply_rules(_, _)
apply_rules(dm, rules) ==
    IF rules = <<>> THEN [err |-> FALSE, dm |-> dm]
    ELSE LET r == apply_rule(dm, Head(rules))
         IN  IF r.err THEN r ELSE apply_rules(r.dm, Tail(rules))

\* the early return for the empty spec left out
spec_is_empty_unchecked(stripped) == stripped # stripped

\* line 99
spec_is_empty(stripped) == stripped = <<>>

\* line 103
spec_is_247(stripped) == Lower(stripped) = Tok247

\* _parse_opening_hours as a function of the spec string: the kind of the
\* returned callable ("raised" if an exception escapes) and its days_map
parse_opening_hours(spec) ==
    LET stripped == Strip(spec)
    IN  IF spec_is_empty(stripped) THEN [kind |-> "always", dm |-> EmptyDaysMap]
        ELSE IF spec_is_247(stripped)
        THEN [kind |-> "always", dm |-> [d \in 0..6 |-> << <<0, 24 * 60>> >>]]
        ELSE LET r == apply_rules(EmptyDaysMap, rule_sep(stripped))
             IN  IF r.err THEN [kind |-> "raised", dm |-> r.dm]
                 ELSE [kind |-> "is_open", dm |-> normalize(r.dm)]

-----------------------------------------------------------------------------
(* Spec strings handed to the parser: rules composed of a day part and a    *)
(* time part, joined by "; ", and the specs without rules                   *)

DayMoFr == <<"M","o","-","F","r"," ">>  \* 'Mo-Fr '
DaySaSu == <<"S","a","-","S","u"," ">>  \* 'Sa-Su '
DayMoWe == <<"M","o",",","W","e"," ">>  \* 'Mo,We '
DayXx == <<"X","x"," ">>  \* 'Xx '
DaySuMo == <<"S","u","-","M","o"," ">>  \* 'Su-Mo '
DayMoXxFr == <<"M","o","-","X","x",",","F","r"," ">>  \* 'Mo-Xx,Fr '
DayNone == <<>>  \* ''
Time0517 == <<"0","5",":","0","0","-","1","7",":","0","0">>  \* '05:00-17:00'
Time0712 == <<"0","7",":","0","0","-","1","2",":","0","0">>  \* '07:00-12:00'
TimeOff == <<"o","f","f">>  \* 'off'
TimeOffUpper == <<"O","F","F"," ","0","7",":","0","0","-","1","2",":","0","0">>  \* 'OFF 07:00-12:00'
TimeNight == <<"2","2",":","0","0","-","0","2",":","0","0",",","1","7",":","0","0","-","1","8",":","3","0">>  \* '22:00-02:00,17:00-18:30'
TimeBad == <<"z","z"," ","8",":","0","0","-","8",":","0","0"," ","1","2",":","9","9","-","1","4",":","0","0">>  \* 'zz 8:00-8:00 12:99-14:00'

DayParts == {DayMoFr, DaySaSu, DayMoWe, DayXx, DaySuMo, DayMoXxFr, DayNone}
TimeParts == {Time0517, Time0712, TimeOff, TimeOffUpper, TimeNight, TimeBad}

\* the rule texts: a day part followed by a time part
RuleTexts == {d \o t : d \in DayParts, t \in TimeParts}

\* number of rules of a composed spec
MaxRules == 2

RECURSIVE JoinRules(_)
JoinRules(rs) ==
    IF rs = <<>> THEN <<>>
    ELSE IF Len(rs) = 1 THEN rs[1]
    ELSE rs[1] \o <<";", " ">> \o JoinRules(Tail(rs))

ComposedSpecs ==
    UNION {{JoinRules(rs) : rs \in [1..n -> RuleTexts]} : n \in 1..MaxRules}

SpecEmpty == <<>>
SpecBlank == <<" ", " ">>
Spec247 == <<"2","4","/","7">>
Spec247Padded == <<" ","2","4","/","7"," ">>
SpecSemicolons == <<";", " ", ";">>

\* "Mo-Fr 05:00-17:00; Sa-Su 07:00-12:00" (module docstring, line 12)
SpecWeek == JoinRules(<<DayMoFr \o Time0517, DaySaSu \o Time0712>>)

\* the day token ALL (line 132), after an unrecognized name and in an off rule
SpecAll == <<"X","x",",","A","L","L"," ","0","7",":","0","0","-","1","2",":","0","0">>  \* 'Xx,ALL 07:00-12:00'
SpecAllOff == <<"0","5",":","0","0","-","1","7",":","0","0",";"," ","S","a",",","A","L","L",",","X","x"," ","o","f","f">>  \* '05:00-17:00; Sa,ALL,Xx off'

OHSpecs ==
    ComposedSpecs \cup {SpecEmpty, SpecBlank, Spec247, Spec247Padded, SpecSemicolons,
                        SpecAll, SpecAllOff}

-----------------------------------------------------------------------------
(* The parser as a state machine: one step for lines 98-115, one per rule   *)
(* of the loop of lines 116-161, one for the normalisation and return       *)

OHIdle ==
    /\ oh_spec = <<>> /\ oh_pc = "idle" /\ oh_rules = <<>>
    /\ days_map = EmptyDaysMap /\ oh_kind = "none" /\ oh_last = <<>>

OHBegin ==
    /\ oh_spec \in OHSpecs
    /\ oh_pc = "start"
    /\ oh_rules = <<>>
    /\ days_map = EmptyDaysMap
    /\ oh_kind = "none"
    /\ oh_last = <<>>

\* lines 98-100: the spec is empty after strip
OHReturnLambda ==
    /\ oh_pc = "start"
    /\ spec_is_empty(Strip(oh_spec))
    /\ oh_kind' = "always"
    /\ oh_pc' = "done"
    /\ UNCHANGED <<oh_spec, oh_rules, days_map, oh_last>>

\* lines 102-110: the spec is 24/7
OHReturnAlways ==
    /\ oh_pc = "start"
    /\ ~spec_is_empty(Strip(oh_spec))
    /\ spec_is_247(Strip(oh_spec))
    /\ days_map' = [d \in 0..6 |-> << <<0, 24 * 60>> >>]
    /\ oh_kind' = "always"
    /\ oh_pc' = "done"
    /\ UNCHANGED <<oh_spec, oh_rules, oh_last>>

\* lines 102-115: any other spec is split into rules
OHSplitRules ==
    /\ oh_pc = "start"
    /\ ~spec_is_empty(Strip(oh_spec))
    /\ ~spec_is_247(Strip(oh_spec))
    /\ oh_rules' = rule_sep(Strip(oh_spec))
    /\ oh_pc' = "rules"
    /\ UNCHANGED <<oh_spec, days_map, oh_kind, oh_last>>

\* lines 116-161: one iteration of the loop over rule_sep
OHApplyRule ==
    /\ oh_pc = "rules"
    /\ oh_rules # <<>>
    /\ LET r == apply_rule(days_map, Head(oh_rules))
       IN  IF r.err
           THEN /\ oh_kind' = "raised"
                /\ oh_pc' = "done"
                /\ UNCHANGED <<days_map, oh_rules, oh_last>>
           ELSE /\ days_map' = r.dm
                /\ oh_rules' = Tail(oh_rules)
                /\ oh_last' = Head(oh_rules)
                /\ UNCHANGED <<oh_kind, oh_pc>>
    /\ UNCHANGED oh_spec

\* lines 162-181: normalise and return is_open
OHNormalize ==
    /\ oh_pc = "rules"
    /\ oh_rules = <<>>
    /\ days_map' = normalize(days_map)
    /\ oh_kind' = "is_open"
    /\ oh_pc' = "done"
    /\ UNCHANGED <<oh_spec, oh_rules, oh_last>>


-----------------------------------------------------------------------------
(* process_location and its helpers, src/wave_alert.py:228-402 *)

\* first minute of summer time: Sunday 2025-03-30 01:00 UTC
DstStart == 6 * 1440 + 60

\* to_oslo (lines 246-249): UTC minutes -> Europe/Oslo wall-clock minutes
to_oslo(dt) == IF dt < DstStart THEN dt + 60 ELSE dt + 120

\* wave_threshold of the default configuration (0.5 m), in decimetres
WAVE_THRESHOLD == 5

\* the radius passed to window_indices by process_location (line 380)
WindowRadius == 3

Abs(x) == IF x < 0 THEN -x ELSE x

\* IS_OPEN(to_oslo(w.time)) for the callable pred = [kind, dm]
is_open_utc(pred, t) == predicate(pred.kind, pred.dm, to_oslo(t))

\* a strict comparison in place of >=
meets_threshold_strict(h) == h > WAVE_THRESHOLD

\* w.sea_surface_wave_height >= WAVE_THRESHOLD (line 372)
meets_threshold(h) == h >= WAVE_THRESHOLD

\* the filter without the opening hours
is_exceedance_any_hour(pred, wl, i) == meets_threshold(wl[i + 1].height)

\* the filter of the comprehension of lines 369-373, on a 0-based index
is_exceedance(pred, wl, i) ==
    is_open_utc(pred, wl[i + 1].time) /\ meets_threshold(wl[i + 1].height)

\* the comprehension of lines 369-373: 0-based indices in enumeration order
RECURSIVE exceed_from(_, _, _)
exceed_from(pred, wl, i) ==
    IF i >= Len(wl) THEN <<>>
    ELSE IF is_exceedance(pred, wl, i)
    THEN <<i>> \o exceed_from(pred, wl, i + 1)
    ELSE exceed_from(pred, wl, i + 1)

detect_exceed(pred, wl) == exceed_from(pred, wl, 0)

\* the end of the range computed without the + 1
window_indices_short(center_idx, total, radius) ==
    LET start == Max2(0, center_idx - radius)
        end == Min2(total, center_idx + radius)
    IN  {j \in start..(end - 1) : TRUE}

\* window_indices (lines 228-231): the members of range(start, end)
window_indices(center_idx, total, radius) ==
    LET start == Max2(0, center_idx - radius)
        end == Min2(total, center_idx + radius + 1)
    IN  {j \in start..(end - 1) : TRUE}

\* the set built at lines 378-381
expand_selected(exceed, total, radius) ==
    UNION {window_indices(exceed[k], total, radius) : k \in 1..Len(exceed)}

\* sorted(..., key=lambda w: w.time) over the selected indices (line 382);
\* the wave times of a series are distinct, so the order is that of the times
RECURSIVE sort_by_time(_, _)
sort_by_time(wl, idxs) ==
    IF idxs = {} THEN <<>>
    ELSE LET m == CHOOSE i \in idxs :
                      \A j \in idxs :
                          \/ wl[i + 1].time < wl[j + 1].time
                          \/ (wl[i + 1].time = wl[j + 1].time /\ i <= j)
         IN  <<m>> \o sort_by_time(wl, idxs \ {m})

\* the 0-based indices of wobjs, in the order of wobjs
wave_obj_indices(wl, exceed) ==
    sort_by_time(wl, expand_selected(exceed, Len(wl), WindowRadius))

wave_objs_of(wl, exceed) ==
    LET ix == wave_obj_indices(wl, exceed)
    IN  IF Len(ix) = 0 THEN <<>> ELSE [k \in 1..Len(ix) |-> wl[ix[k] + 1]]

\* the key of nearest_weather (line 236)
time_distance(w, target_time) == Abs(w.time - target_time)

\* min(wxl, key=...): the first element with the least key
first_min(ws, target_time) ==
    LET k == CHOOSE i \in 1..Len(ws) :
                 /\ \A j \in 1..Len(ws) :
                        time_distance(ws[i], target_time) <= time_distance(ws[j], target_time)
                 /\ \A j \in 1..(i - 1) :
                        time_distance(ws[j], target_time) > time_distance(ws[i], target_time)
    IN  ws[k]

\* a nearest match that gives up beyond one hour
nearest_weather_tolerance(wxl, target_time) ==
    IF wxl # <<>> /\ time_distance(first_min(wxl, target_time), target_time) <= 60
    THEN <<first_min(wxl, target_time)>>
    ELSE <<>>

\* nearest_weather (lines 234-239): <<>> stands for None
nearest_weather(wxl, target_time) ==
    IF wxl # <<>> THEN <<first_min(wxl, target_time)>> ELSE <<>>

\* every match stored as an entry of its own
setdefault_append(wmap, wt) == Append(wmap, wt)

\* weather_map.setdefault(wt.time, wt) on the dict kept in insertion order
setdefault(wmap, wt) ==
    IF \E k \in 1..Len(wmap) : wmap[k].time = wt.time
    THEN wmap
    ELSE Append(wmap, wt)

\* lines 385-389: the collocation loop
RECURSIVE collocate(_, _, _)
collocate(wobjs, wxl, wmap) ==
    IF wobjs = <<>> THEN wmap
    ELSE LET wt == nearest_weather(wxl, Head(wobjs).time)
         IN  IF wt # <<>>
             THEN collocate(Tail(wobjs), wxl, setdefault(wmap, wt[1]))
             ELSE collocate(Tail(wobjs), wxl, wmap)

\* of the entries equally near to the wave time, the one inserted last
row_weather_last_nearest(wv, wmap) ==
    IF wmap # <<>>
    THEN LET k == CHOOSE i \in 1..Len(wmap) :
                      /\ \A j \in 1..Len(wmap) :
                             time_distance(wmap[i], wv.time) <= time_distance(wmap[j], wv.time)
                      /\ \A j \in (i + 1)..Len(wmap) :
                             time_distance(wmap[j], wv.time) > time_distance(wmap[i], wv.time)
         IN  <<wmap[k]>>
    ELSE <<>>

\* lines 283-285: the weather sample shown with wv; <<>> stands for None
row_weather(wv, wmap) ==
    IF wmap # <<>> THEN <<first_min(wmap, wv.time)>> ELSE <<>>

\* the line appended to text_lines (lines 286-299)
text_row(wv, wt) == [time |-> to_oslo(wv.time), h |-> wv.height, wt |-> wt]

\* the row appended to html_parts (lines 301-328); idx is 0-based
html_row(idx, wv, wt) ==
    [time |-> to_oslo(wv.time), h |-> wv.height, wt |-> wt,
     style |-> IF wv.height >= WAVE_THRESHOLD THEN "highlight"
               ELSE IF idx % 2 = 0 THEN "zebra_even" ELSE "zebra_odd"]

\* a table that leaves out the samples for which no weather sample is found
build_combined_table_matched(wobjs, wmap) ==
    IF Len(wobjs) = 0 \/ wmap = <<>> THEN [text |-> <<>>, html |-> <<>>]
    ELSE [text |-> [k \in 1..Len(wobjs) |->
                       text_row(wobjs[k], row_weather(wobjs[k], wmap))],
          html |-> [k \in 1..Len(wobjs) |->
                       html_row(k - 1, wobjs[k], row_weather(wobjs[k], wmap))]]

\* build_combined_table (lines 252-330): the data rows of the text table and
\* of the html table, without the constant header and footer
build_combined_table(wobjs, wmap) ==
    IF Len(wobjs) = 0 THEN [text |-> <<>>, html |-> <<>>]
    ELSE [text |-> [k \in 1..Len(wobjs) |->
                       text_row(wobjs[k], row_weather(wobjs[k], wmap))],
          html |-> [k \in 1..Len(wobjs) |->
                       html_row(k - 1, wobjs[k], row_weather(wobjs[k], wmap))]]

RECURSIVE MaxOfSet(_)
MaxOfSet(S) ==
    LET x == CHOOSE y \in S : TRUE
    IN  IF S = {x} THEN x ELSE Max2(x, MaxOfSet(S \ {x}))

\* the maximum taken over all samples of the window
max_height_of_window(wl, exceed) ==
    MaxOfSet({wl[i + 1].height : i \in expand_selected(exceed, Len(wl), WindowRadius)})

\* max(wave_list[i].sea_surface_wave_height for i in exceed_indices) (line 400)
max_height_of(wl, exceed) ==
    MaxOfSet({wl[exceed[k] + 1].height : k \in 1..Len(exceed)})

\* the dict returned at lines 392-402
aggregate(loc_id, wl, exceed, table) ==
    [loc_id |-> loc_id,
     exceed_count |-> Len(exceed),
     combined_table_text |-> table.text,
     combined_table_html |-> table.html,
     max_height |-> max_height_of(wl, exceed),
     first_time |-> wl[exceed[1] + 1].time]

NoAggregate == [loc_id |-> 0, exceed_count |-> 0, combined_table_text |-> <<>>,
                combined_table_html |-> <<>>, max_height |-> 0, first_time |-> 0]

\* process_location (lines 362-402) on the outcome fc of the two fetches:
\* status "raise" (an exception leaves the function), "none" or "agg"
process_location(pred, loc_id, fc) ==
    IF ~fc.waves_ok \/ ~fc.forecast_ok
    THEN [status |-> "raise", agg |-> NoAggregate]
    ELSE LET exceed == detect_exceed(pred, fc.wave_list)
         IN  IF exceed = <<>>
             THEN [status |-> "none", agg |-> NoAggregate]
             ELSE LET wo == wave_objs_of(fc.wave_list, exceed)
                      wm == collocate(wo, fc.weather_list, <<>>)
                  IN  [status |-> "agg",
                       agg |-> aggregate(loc_id, fc.wave_list, exceed,
                                         build_combined_table(wo, wm))]

-----------------------------------------------------------------------------
(* The inputs of process_location: what the two fetches return *)

\* length of a fetched wave series
MaxWaves == 6

\* wave heights in decimetres: below, at and above the threshold
WaveHeights == {4, 5, 6}

\* UTC times of the first wave sample: Monday 02:00 (03:00 in Oslo),
\* Saturday 09:00 (10:00 in Oslo), Sunday 2025-03-30 04:00 (06:00 in Oslo,
\* summer time)
WaveStarts == {120, 5 * 1440 + 540, 6 * 1440 + 240}

\* an hourly wave series (oceanforecast)
wave_series(t0, hs) ==
    IF Len(hs) = 0 THEN <<>>
    ELSE [k \in 1..Len(hs) |-> [time |-> t0 + 60 * (k - 1), height |-> hs[k]]]

WaveLists ==
    UNION {{wave_series(t0, hs) : t0 \in WaveStarts, hs \in [1..n -> WaveHeights]}
           : n \in 0..MaxWaves}

\* minutes between the first wave sample and the candidate weather samples
WeatherOffsets == <<-10, 50, 70>>

RECURSIVE weather_series(_, _, _)
weather_series(t0, S, k) ==
    IF k > Len(WeatherOffsets) THEN <<>>
    ELSE IF k \in S
    THEN <<[time |-> t0 + WeatherOffsets[k], air_temperature |-> k]>>
             \o weather_series(t0, S, k + 1)
    ELSE weather_series(t0, S, k + 1)

\* the weather series (locationforecast), ascending by time
WeatherLists(t0) == {weather_series(t0, S, 1) : S \in SUBSET (1..Len(WeatherOffsets))}

\* the opening_hours values of the configurations considered for a run
ConfiguredSpecs == {Spec247, SpecWeek}

-----------------------------------------------------------------------------
(* process_location as a state machine, one step per stage *)

\* a value of the key opening_hours: <<>> stands for None (the key is not
\* set), <<s>> for the string s
NoValue == <<>>

\* the file at CONFIG_PATH does not exist
NoConfigFile == [exists |-> FALSE, readable |-> FALSE, opening_hours |-> NoValue]

\* the dict `base` of load_config (lines 51-65): opening_hours is None
base == [opening_hours |-> NoValue]

\* the shallow merge of lines 71-75, for the key opening_hours
merged_config(file) ==
    IF file.opening_hours # NoValue THEN [opening_hours |-> file.opening_hours]
    ELSE base

\* load_config (lines 50-79): the defaults when the file is missing or
\* cannot be read, else the defaults overridden by the keys of the file
load_config(file) ==
    IF file.exists /\ file.readable THEN merged_config(file) ELSE base

\* CFG.get("opening_hours", "") (line 184): the key is always in the dict,
\* so the default is never used and a value of None is returned as it is
cfg_get(cfg, default) == cfg.opening_hours

\* the callable bound to IS_OPEN before line 185 has run
Unbound == [kind |-> "unbound", dm |-> EmptyDaysMap]

\* the import has ended with the opening_hours string spec in the file
StartedWith(spec) ==
    /\ start_pc = "ready"
    /\ config_file = [exists |-> TRUE, readable |-> TRUE, opening_hours |-> <<spec>>]
    /\ CFG = [opening_hours |-> <<spec>>]

CfgIdle ==
    /\ IS_OPEN = [kind |-> "always", dm |-> EmptyDaysMap]
    /\ smtp_cfg = [user |-> FALSE, pass |-> FALSE, to |-> FALSE]
    /\ start_pc = "idle"
    /\ config_file = NoConfigFile
    /\ CFG = base

LocIdle ==
    /\ loc_pc = "idle"
    /\ wave_list = <<>>
    /\ weather_list = <<>>
    /\ exceed_indices = <<>>
    /\ wave_objs = <<>>
    /\ weather_map = <<>>
    /\ loc_result = [status |-> "running", agg |-> NoAggregate]

LocBegin ==
    /\ loc_pc = "fetch_waves"
    /\ wave_list = <<>>
    /\ weather_list = <<>>
    /\ exceed_indices = <<>>
    /\ wave_objs = <<>>
    /\ weather_map = <<>>
    /\ loc_result = [status |-> "running", agg |-> NoAggregate]

\* lines 364, 366: fetch_waves returns a series
LocFetchWaves ==
    /\ loc_pc = "fetch_waves"
    /\ \E wl \in WaveLists : wave_list' = wl
    /\ loc_pc' = "fetch_forecast"
    /\ UNCHANGED <<weather_list, exceed_indices, wave_objs, weather_map, loc_result>>

\* line 364: fetch_waves raises
LocFetchWavesFails ==
    /\ loc_pc = "fetch_waves"
    /\ loc_result' = process_location(IS_OPEN, 1,
                        [waves_ok |-> FALSE, forecast_ok |-> TRUE,
                         wave_list |-> <<>>, weather_list |-> <<>>])
    /\ loc_pc' = "done"
    /\ UNCHANGED <<wave_list, weather_list, exceed_indices, wave_objs, weather_map>>

\* lines 365, 367: fetch_forecast returns a series
LocFetchForecast ==
    /\ loc_pc = "fetch_forecast"
    /\ \E t0 \in WaveStarts :
          /\ IF Len(wave_list) = 0 THEN TRUE ELSE wave_list[1].time = t0
          /\ \E wxl \in WeatherLists(t0) : weather_list' = wxl
    /\ loc_pc' = "detect"
    /\ UNCHANGED <<wave_list, exceed_indices, wave_objs, weather_map, loc_result>>

\* line 365: fetch_forecast raises
LocFetchForecastFails ==
    /\ loc_pc = "fetch_forecast"
    /\ loc_result' = process_location(IS_OPEN, 1,
                        [waves_ok |-> TRUE, forecast_ok |-> FALSE,
                         wave_list |-> wave_list, weather_list |-> <<>>])
    /\ loc_pc' = "done"
    /\ UNCHANGED <<wave_list, weather_list, exceed_indices, wave_objs, weather_map>>

\* lines 369-375: detection, and return None when nothing exceeds
LocDetect ==
    /\ loc_pc = "detect"
    /\ exceed_indices' = detect_exceed(IS_OPEN, wave_list)
    /\ IF exceed_indices' = <<>>
       THEN /\ loc_result' = [status |-> "none", agg |-> NoAggregate]
            /\ loc_pc' = "done"
       ELSE /\ loc_pc' = "expand"
            /\ UNCHANGED loc_result
    /\ UNCHANGED <<wave_list, weather_list, wave_objs, weather_map>>

\* lines 377-382: window expansion
LocExpand ==
    /\ loc_pc = "expand"
    /\ wave_objs' = wave_objs_of(wave_list, exceed_indices)
    /\ loc_pc' = "collocate"
    /\ UNCHANGED <<wave_list, weather_list, exceed_indices, weather_map, loc_result>>

\* lines 384-389: collocation
LocCollocate ==
    /\ loc_pc = "collocate"
    /\ weather_map' = collocate(wave_objs, weather_list, <<>>)
    /\ loc_pc' = "table"
    /\ UNCHANGED <<wave_list, weather_list, exceed_indices, wave_objs, loc_result>>

\* lines 391-402: the table and the returned dict
LocReturn ==
    /\ loc_pc = "table"
    /\ loc_result' = [status |-> "agg",
                      agg |-> aggregate(1, wave_list, exceed_indices,
                                        build_combined_table(wave_objs, weather_map))]
    /\ loc_pc' = "done"
    /\ UNCHANGED <<wave_list, weather_list, exceed_indices, wave_objs, weather_map>>

-----------------------------------------------------------------------------
(* run and send_email, src/wave_alert.py:215-225, 333-359, 405-463 *)

\* number of rows of table locations
MaxLocs == 3

\* what the forecast service answers for a location.  The series start on
\* Monday 02:00 UTC, 03:00 in Oslo, two hours before SpecWeek opens
FcWavesFail == [waves_ok |-> FALSE, forecast_ok |-> TRUE,
                wave_list |-> <<>>, weather_list |-> <<>>]

FcForecastFail == [waves_ok |-> TRUE, forecast_ok |-> FALSE,
                   wave_list |-> wave_series(120, <<4, 4, 6>>), weather_list |-> <<>>]

FcCalm == [waves_ok |-> TRUE, forecast_ok |-> TRUE,
           wave_list |-> wave_series(120, <<6, 6, 4>>),
           weather_list |-> weather_series(120, {1, 2}, 1)]

FcOne == [waves_ok |-> TRUE, forecast_ok |-> TRUE,
          wave_list |-> wave_series(120, <<4, 4, 4, 5>>),
          weather_list |-> weather_series(120, {2, 3}, 1)]

FcTwo == [waves_ok |-> TRUE, forecast_ok |-> TRUE,
          wave_list |-> wave_series(120, <<6, 4, 6, 4, 5>>),
          weather_list |-> <<>>]

\* one sample of 0.6 m inside opening hours (06:00 in Oslo), the others below
\* the threshold
FcA == [waves_ok |-> TRUE, forecast_ok |-> TRUE,
        wave_list |-> wave_series(120, <<4, 4, 4, 6>>),
        weather_list |-> weather_series(120, {1}, 1)]

ForecastCatalog == {FcWavesFail, FcForecastFail, FcCalm, FcOne, FcTwo, FcA}

\* the values of the argument limit: None, or an integer
LimitValues == {<<>>} \cup {<<n>> : n \in (-1)..(MaxLocs + 1)}

\* rows[:n]
slice_to(rows, n) ==
    IF n >= 0 THEN SubSeq(rows, 1, Min2(n, Len(rows)))
    ELSE SubSeq(rows, 1, Max2(0, Len(rows) + n))

\* the limit passed on as given
limit_as_given(lim) == lim

\* `limit if limit else None` (line 406)
limit_or_none(lim) == IF lim # <<>> /\ lim[1] # 0 THEN lim ELSE <<>>

\* load_locations (lines 215-225) when the database exists
load_locations(rows, lim) == IF lim # <<>> THEN slice_to(rows, lim[1]) ELSE rows

\* the test left out: the report is built and sent whatever aggregates holds
no_aggregates_unchecked(aggs) == aggs # aggs

\* the test of line 422
no_aggregates(aggs) == aggs = <<>>

\* a list that outlives the call
aggregates_kept(prev) == prev

\* `aggregates = []` (line 410); prev is what an earlier call left behind
new_aggregates(prev) == <<>>

\* every aggregate counted as one exceedance
add_exceed_one(total, agg) == total + 1

\* `total_exceed += agg["exceed_count"]` (line 418)
add_exceed(total, agg) == total + agg.exceed_count

\* the handler ending the loop instead of going on
after_error_break(i, n) == n

\* the value of the loop counter after the handler of lines 419-420:
\* n is len(locs); the loop goes on with the next location
after_error(i, n) == i + 1

\* an aggregate put before the aggregates of the same first time
key_before_or_equal(a, b) == a.first_time <= b.first_time

\* the comparison of the keys of line 439: a goes before b only when its
\* first time is strictly earlier (sorted is stable)
key_before(a, b) == a.first_time < b.first_time

\* sorted(aggregates, key=lambda a: a["first_time"]) (line 439), stable
RECURSIVE insert_by_first_time(_, _)
insert_by_first_time(sorted, a) ==
    IF sorted = <<>> THEN <<a>>
    ELSE IF key_before(a, Head(sorted)) THEN <<a>> \o sorted
    ELSE <<Head(sorted)>> \o insert_by_first_time(Tail(sorted), a)

RECURSIVE insertion_sort(_)
insertion_sort(aggs) ==
    IF aggs = <<>> THEN <<>>
    ELSE insert_by_first_time(insertion_sort(SubSeq(aggs, 1, Len(aggs) - 1)),
                              aggs[Len(aggs)])

\* the aggregates taken in the order of the loop
in_loop_order(aggs) == aggs

\* line 439
sorted_by_first_time(aggs) == insertion_sort(aggs)

\* the section of one aggregate in the text body (lines 441-446)
text_section(agg) ==
    [loc_id |-> agg.loc_id, exceedances |-> agg.exceed_count, max |-> agg.max_height,
     first |-> to_oslo(agg.first_time), table |-> agg.combined_table_text]

\* the section of one aggregate in the html body (lines 447-450)
html_section(agg) ==
    [loc_id |-> agg.loc_id, exceedances |-> agg.exceed_count, max |-> agg.max_height,
     first |-> to_oslo(agg.first_time), table |-> agg.combined_table_html]

\* lines 427-456: subject, body and html_body
build_report(aggs, total) ==
    LET ordered == sorted_by_first_time(aggs)
    IN  [subject |-> [locations |-> Len(aggs), exceedances |-> total,
                      threshold |-> WAVE_THRESHOLD],
         body |-> [k \in 1..Len(ordered) |-> text_section(ordered[k])],
         html_body |-> [k \in 1..Len(ordered) |-> html_section(ordered[k])]]

\* line 339: to_addr is `to` or, failing that, `user`; TRUE when it is not ""
to_addr(cfg) == cfg.to \/ cfg.user

\* the password left out of the test
smtp_ready_no_pass(cfg) == cfg.user /\ to_addr(cfg)

\* the test of line 342
smtp_ready(cfg) == cfg.user /\ cfg.pass /\ to_addr(cfg)

Logged(ev, loc) == Append(log, [ev |-> ev, loc |-> loc])

RunIdle ==
    /\ run_pc = "idle"
    /\ db_exists = FALSE
    /\ store = <<>>
    /\ forecast = <<>>
    /\ limit = <<>>
    /\ locs = <<>>
    /\ loc_i = 0
    /\ aggregates = <<>>
    /\ total_exceed = 0
    /\ send_calls = 0
    /\ report = <<>>
    /\ outbox = <<>>
    /\ log = <<>>

\* the state when run(limit) is called: the store, the answers the forecast
\* service will give, and the argument
RunBegin ==
    /\ run_pc = "start"
    /\ db_exists \in BOOLEAN
    /\ \E n \in 0..MaxLocs :
          /\ store = RangeList(1, n + 1)
          /\ forecast \in [1..n -> ForecastCatalog]
    /\ db_exists = FALSE => store = <<>>
    /\ limit \in LimitValues
    /\ locs = <<>>
    /\ loc_i = 0
    /\ aggregates = <<>>
    /\ total_exceed = 0
    /\ send_calls = 0
    /\ report = <<>>
    /\ outbox = <<>>
    /\ log = <<>>

\* lines 216-217: the database is missing, SystemExit leaves run
RunLoadFails ==
    /\ run_pc = "start"
    /\ ~db_exists
    /\ run_pc' = "raised"
    /\ UNCHANGED <<db_exists, store, forecast, limit, locs, loc_i, aggregates,
                   total_exceed, send_calls, report, outbox, log>>

\* lines 406-411: load the locations; return when there are none
RunLoad ==
    /\ run_pc = "start"
    /\ db_exists
    /\ locs' = load_locations(store, limit_or_none(limit))
    /\ IF locs' = <<>>
       THEN /\ log' = Logged("no_locations", 0)
            /\ run_pc' = "returned"
            /\ UNCHANGED <<aggregates, total_exceed>>
       ELSE /\ aggregates' = new_aggregates(aggregates)
            /\ total_exceed' = 0
            /\ run_pc' = "loop"
            /\ UNCHANGED log
    /\ UNCHANGED <<db_exists, store, forecast, limit, loc_i, send_calls, report, outbox>>

\* lines 412-420: one iteration of the loop over locs
RunProcess ==
    /\ run_pc = "loop"
    /\ loc_i < Len(locs)
    /\ LET id == locs[loc_i + 1]
           r == process_location(IS_OPEN, id, forecast[id])
       IN  IF r.status = "raise"
           THEN /\ log' = log \o <<[ev |-> "processing", loc |-> id],
                                   [ev |-> "error", loc |-> id]>>
                /\ loc_i' = after_error(loc_i, Len(locs))
                /\ UNCHANGED <<aggregates, total_exceed>>
           ELSE /\ log' = Logged("processing", id)
                /\ loc_i' = loc_i + 1
                /\ IF r.status = "agg"
                   THEN /\ aggregates' = Append(aggregates, r.agg)
                        /\ total_exceed' = add_exceed(total_exceed, r.agg)
                   ELSE UNCHANGED <<aggregates, total_exceed>>
    /\ UNCHANGED <<run_pc, db_exists, store, forecast, limit, locs, send_calls,
                   report, outbox>>

\* lines 422-424: nothing to report
RunNoExceedances ==
    /\ run_pc = "loop"
    /\ loc_i >= Len(locs)
    /\ no_aggregates(aggregates)
    /\ log' = Logged("no_exceedances", 0)
    /\ run_pc' = "returned"
    /\ UNCHANGED <<db_exists, store, forecast, limit, locs, loc_i, aggregates,
                   total_exceed, send_calls, report, outbox>>

\* lines 426-457 with send_email returning at line 344: credentials missing
RunSendSkipped ==
    /\ run_pc = "loop"
    /\ loc_i >= Len(locs)
    /\ ~no_aggregates(aggregates)
    /\ ~smtp_ready(smtp_cfg)
    /\ report' = Append(report, build_report(aggregates, total_exceed))
    /\ send_calls' = send_calls + 1
    /\ log' = Logged("skip_sending", 0)
    /\ run_pc' = "returned"
    /\ UNCHANGED <<db_exists, store, forecast, limit, locs, loc_i, aggregates,
                   total_exceed, outbox>>

\* lines 426-457 with send_email delivering (lines 346-359)
RunSendDelivered ==
    /\ run_pc = "loop"
    /\ loc_i >= Len(locs)
    /\ ~no_aggregates(aggregates)
    /\ smtp_ready(smtp_cfg)
    /\ report' = Append(report, build_report(aggregates, total_exceed))
    /\ send_calls' = send_calls + 1
    /\ outbox' = Append(outbox, build_report(aggregates, total_exceed))
    /\ log' = log \o <<[ev |-> "sending", loc |-> 0], [ev |-> "sent", loc |-> 0]>>
    /\ run_pc' = "returned"
    /\ UNCHANGED <<db_exists, store, forecast, limit, locs, loc_i, aggregates,
                   total_exceed>>

\* lines 426-457 with smtplib raising inside send_email (lines 355-358):
\* nothing catches the exception, it leaves send_email and run
RunSendFails ==
    /\ run_pc = "loop"
    /\ loc_i >= Len(locs)
    /\ ~no_aggregates(aggregates)
    /\ smtp_ready(smtp_cfg)
    /\ report' = Append(report, build_report(aggregates, total_exceed))
    /\ send_calls' = send_calls + 1
    /\ log' = Logged("sending", 0)
    /\ run_pc' = "raised"
    /\ UNCHANGED <<db_exists, store, forecast, limit, locs, loc_i, aggregates,
                   total_exceed, outbox>>

\* number of calls of run in one life of the scheduler process
MaxRuns == 2

\* alert_scheduler.py: after the immediate run of line 63 the cron job of
\* line 55 calls daily_task, which calls run with the same configuration;
\* the scheduler goes on after a job that raised.  The locals of the ended
\* call are gone, the module globals, the store and what was printed and
\* sent stay
RunAgain ==
    /\ run_pc \in {"returned", "raised"}
    /\ runs < MaxRuns
    /\ runs' = runs + 1
    /\ run_pc' = "start"
    /\ locs' = <<>>
    /\ loc_i' = 0
    /\ UNCHANGED <<db_exists, store, forecast, limit, aggregates, total_exceed,
                   send_calls, report, outbox, log>>

-----------------------------------------------------------------------------
(* Specifications *)

\* a run of the alert script under a configuration with opening hours
\* app_map is not running
MapIdle ==
    /\ scheduled_tasks = FALSE
    /\ thread_pc = "not_started"
    /\ jobs = 0
    /\ due = 0
    /\ late_start = FALSE

Init ==
    /\ OHIdle
    /\ IS_OPEN = parse_opening_hours(SpecWeek)
    /\ StartedWith(SpecWeek)
    /\ smtp_cfg \in [user : BOOLEAN, pass : BOOLEAN, to : BOOLEAN]
    /\ LocIdle
    /\ RunBegin
    /\ runs = 1
    /\ MapIdle

Next ==
    \/ RunLoadFails /\ UNCHANGED <<oh_vars, cfg_vars, loc_vars, sched_vars, map_vars>>
    \/ RunLoad /\ UNCHANGED <<oh_vars, cfg_vars, loc_vars, sched_vars, map_vars>>
    \/ RunProcess /\ UNCHANGED <<oh_vars, cfg_vars, loc_vars, sched_vars, map_vars>>
    \/ RunNoExceedances /\ UNCHANGED <<oh_vars, cfg_vars, loc_vars, sched_vars, map_vars>>
    \/ RunSendSkipped /\ UNCHANGED <<oh_vars, cfg_vars, loc_vars, sched_vars, map_vars>>
    \/ RunSendDelivered /\ UNCHANGED <<oh_vars, cfg_vars, loc_vars, sched_vars, map_vars>>
    \/ RunSendFails /\ UNCHANGED <<oh_vars, cfg_vars, loc_vars, sched_vars, map_vars>>

Spec == Init /\ [][Next]_vars

\* the scheduler process: run called again and again on the same store and
\* the same forecasts, with or without a limit
InitRepeat ==
    /\ Init
    /\ limit \in {<<>>, <<2>>}

NextRepeat ==
    \/ RunLoadFails /\ UNCHANGED <<oh_vars, cfg_vars, loc_vars, sched_vars, map_vars>>
    \/ RunLoad /\ UNCHANGED <<oh_vars, cfg_vars, loc_vars, sched_vars, map_vars>>
    \/ RunProcess /\ UNCHANGED <<oh_vars, cfg_vars, loc_vars, sched_vars, map_vars>>
    \/ RunNoExceedances /\ UNCHANGED <<oh_vars, cfg_vars, loc_vars, sched_vars, map_vars>>
    \/ RunSendSkipped /\ UNCHANGED <<oh_vars, cfg_vars, loc_vars, sched_vars, map_vars>>
    \/ RunSendDelivered /\ UNCHANGED <<oh_vars, cfg_vars, loc_vars, sched_vars, map_vars>>
    \/ RunSendFails /\ UNCHANGED <<oh_vars, cfg_vars, loc_vars, sched_vars, map_vars>>
    \/ RunAgain /\ UNCHANGED <<oh_vars, cfg_vars, loc_vars, map_vars>>

SpecRepeat == InitRepeat /\ [][NextRepeat]_vars

\* _parse_opening_hours on the spec strings of OHSpecs
InitOH == OHBegin /\ CfgIdle /\ LocIdle /\ RunIdle /\ runs = 0 /\ MapIdle

NextOH ==
    \/ OHReturnLambda /\ UNCHANGED <<cfg_vars, loc_vars, run_vars, sched_vars, map_vars>>
    \/ OHReturnAlways /\ UNCHANGED <<cfg_vars, loc_vars, run_vars, sched_vars, map_vars>>
    \/ OHSplitRules /\ UNCHANGED <<cfg_vars, loc_vars, run_vars, sched_vars, map_vars>>
    \/ OHApplyRule /\ UNCHANGED <<cfg_vars, loc_vars, run_vars, sched_vars, map_vars>>
    \/ OHNormalize /\ UNCHANGED <<cfg_vars, loc_vars, run_vars, sched_vars, map_vars>>

SpecOH == InitOH /\ [][NextOH]_vars

\* process_location on the series of WaveLists and WeatherLists
InitLoc ==
    /\ OHIdle
    /\ \E cs \in ConfiguredSpecs : IS_OPEN = parse_opening_hours(cs) /\ StartedWith(cs)
    /\ smtp_cfg = [user |-> FALSE, pass |-> FALSE, to |-> FALSE]
    /\ LocBegin
    /\ RunIdle
    /\ runs = 0
    /\ MapIdle

NextLoc ==
    \/ LocFetchWaves /\ UNCHANGED <<oh_vars, cfg_vars, run_vars, sched_vars, map_vars>>
    \/ LocFetchWavesFails /\ UNCHANGED <<oh_vars, cfg_vars, run_vars, sched_vars, map_vars>>
    \/ LocFetchForecast /\ UNCHANGED <<oh_vars, cfg_vars, run_vars, sched_vars, map_vars>>
    \/ LocFetchForecastFails /\ UNCHANGED <<oh_vars, cfg_vars, run_vars, sched_vars, map_vars>>
    \/ LocDetect /\ UNCHANGED <<oh_vars, cfg_vars, run_vars, sched_vars, map_vars>>
    \/ LocExpand /\ UNCHANGED <<oh_vars, cfg_vars, run_vars, sched_vars, map_vars>>
    \/ LocCollocate /\ UNCHANGED <<oh_vars, cfg_vars, run_vars, sched_vars, map_vars>>
    \/ LocReturn /\ UNCHANGED <<oh_vars, cfg_vars, run_vars, sched_vars, map_vars>>

SpecLoc == InitLoc /\ [][NextLoc]_vars

\* the values of opening_hours in a configuration file
FileSpecs ==
    RuleTexts \cup {SpecEmpty, SpecBlank, Spec247, Spec247Padded, SpecSemicolons,
                    SpecWeek, SpecAll, SpecAllOff}

\* the configuration files: none, one that tomli cannot read, and readable
\* ones that set opening_hours or leave it out
ConfigFiles ==
    {NoConfigFile, [exists |-> TRUE, readable |-> FALSE, opening_hours |-> NoValue]}
        \cup {[exists |-> TRUE, readable |-> TRUE, opening_hours |-> v] :
                  v \in {NoValue} \cup {<<sp>> : sp \in FileSpecs}}

StartBegin ==
    /\ start_pc = "load"
    /\ config_file \in ConfigFiles
    /\ CFG = base
    /\ IS_OPEN = Unbound
    /\ smtp_cfg = [user |-> FALSE, pass |-> FALSE, to |-> FALSE]

\* lines 66-75, 82: the file exists and is read
StartLoadFile ==
    /\ start_pc = "load"
    /\ config_file.exists /\ config_file.readable
    /\ CFG' = load_config(config_file)
    /\ start_pc' = "parse"
    /\ UNCHANGED <<IS_OPEN, smtp_cfg, config_file>>

\* lines 76-77, 82: reading the file raises, the defaults are used
StartLoadFileFails ==
    /\ start_pc = "load"
    /\ config_file.exists /\ ~config_file.readable
    /\ CFG' = load_config(config_file)
    /\ start_pc' = "parse"
    /\ UNCHANGED <<IS_OPEN, smtp_cfg, config_file>>

\* lines 78-79, 82: there is no file, the defaults are used
StartLoadDefaults ==
    /\ start_pc = "load"
    /\ ~config_file.exists
    /\ CFG' = load_config(config_file)
    /\ start_pc' = "parse"
    /\ UNCHANGED <<IS_OPEN, smtp_cfg, config_file>>

\* lines 184-185 with a string: IS_OPEN is bound to the parsed predicate
StartParse ==
    /\ start_pc = "parse"
    /\ cfg_get(CFG, SpecEmpty) # NoValue
    /\ LET r == parse_opening_hours(cfg_get(CFG, SpecEmpty)[1])
       IN  IF r.kind = "raised"
           THEN start_pc' = "raised" /\ UNCHANGED IS_OPEN
           ELSE start_pc' = "ready" /\ IS_OPEN' = r
    /\ UNCHANGED <<smtp_cfg, config_file, CFG>>

\* lines 184-185 with None: None has no strip, line 98 raises AttributeError
\* and the import of the module fails
StartParseNone ==
    /\ start_pc = "parse"
    /\ cfg_get(CFG, SpecEmpty) = NoValue
    /\ start_pc' = "raised"
    /\ UNCHANGED <<IS_OPEN, smtp_cfg, config_file, CFG>>

\* the import of wave_alert: load_config, then the opening-hours predicate
InitStart == OHIdle /\ StartBegin /\ LocIdle /\ RunIdle /\ runs = 0 /\ MapIdle

NextStart ==
    \/ StartLoadFile /\ UNCHANGED <<oh_vars, loc_vars, run_vars, sched_vars, map_vars>>
    \/ StartLoadFileFails /\ UNCHANGED <<oh_vars, loc_vars, run_vars, sched_vars, map_vars>>
    \/ StartLoadDefaults /\ UNCHANGED <<oh_vars, loc_vars, run_vars, sched_vars, map_vars>>
    \/ StartParse /\ UNCHANGED <<oh_vars, loc_vars, run_vars, sched_vars, map_vars>>
    \/ StartParseNone /\ UNCHANGED <<oh_vars, loc_vars, run_vars, sched_vars, map_vars>>

SpecStart == InitStart /\ [][NextStart]_vars

-----------------------------------------------------------------------------
(* The scheduler thread of app_map, src/app_map.py:298-316 *)

\* the number of registered jobs is counted up to MaxJobs: the value MaxJobs
\* stands for MaxJobs jobs or more
MaxJobs == 3

\* one more job, counted up to MaxJobs
one_more(n) == IF n < MaxJobs THEN n + 1 ELSE MaxJobs

\* the jobs whose next run (two days after registration, at 16:00) lies in
\* the past after a sleep of two days: all of them when the process was
\* started at or after 16:00, else all but the one registered last
jobs_due(n, late) == IF late THEN n ELSE n - 1

\* number of rows of table locations when app_map is started
MapLocs == 2

\* what the forecast service answers to the run made by the thread
MapCatalog == {FcWavesFail, FcCalm, FcOne}

\* the process at the import of app_map: the thread not yet started
MapBegin ==
    /\ scheduled_tasks \in BOOLEAN
    /\ thread_pc = "not_started"
    /\ jobs = 0
    /\ due = 0
    /\ late_start \in BOOLEAN

\* lines 298-316, 310: SCHEDULED_TASKS is set, the thread is started and
\* calls wave_alert_run2
MapStartThread ==
    /\ scheduled_tasks
    /\ thread_pc = "not_started"
    /\ thread_pc' = "first_run"
    /\ runs' = runs + 1
    /\ UNCHANGED <<scheduled_tasks, jobs, due, late_start>>

\* line 310 has returned: the thread enters the loop of line 311
MapRunReturned ==
    /\ thread_pc = "first_run"
    /\ run_pc = "returned"
    /\ thread_pc' = "register"
    /\ UNCHANGED <<scheduled_tasks, jobs, due, late_start, runs>>

\* line 310 has raised: nothing in run_scheduler catches the exception and
\* the thread ends
MapRunRaised ==
    /\ thread_pc = "first_run"
    /\ run_pc = "raised"
    /\ thread_pc' = "dead"
    /\ UNCHANGED <<scheduled_tasks, jobs, due, late_start, runs>>

\* line 312: schedule.every(2).days.at("16:00").do(wave_alert_run2) adds a
\* job to the default scheduler; it does not call the job
MapRegister ==
    /\ thread_pc = "register"
    /\ jobs' = one_more(jobs)
    /\ thread_pc' = "sleep"
    /\ UNCHANGED <<scheduled_tasks, due, late_start, runs>>

\* line 313: time.sleep(TWO_DAYS); the jobs registered so far come due, and
\* nothing calls schedule.run_pending(), the only caller of due jobs
MapSleep ==
    /\ thread_pc = "sleep"
    /\ due' = jobs_due(jobs, late_start)
    /\ thread_pc' = "register"
    /\ UNCHANGED <<scheduled_tasks, jobs, late_start, runs>>

\* the call of run made by the thread is in progress
InFirstRun == thread_pc = "first_run"

InitMap ==
    /\ OHIdle
    /\ IS_OPEN = parse_opening_hours(SpecWeek)
    /\ StartedWith(SpecWeek)
    /\ smtp_cfg \in [user : BOOLEAN, pass : {TRUE}, to : {FALSE}]
    /\ LocIdle
    /\ RunBegin
    /\ Len(store) <= MapLocs
    /\ \A id \in 1..Len(store) : forecast[id] \in MapCatalog
    /\ limit = <<>>
    /\ runs = 0
    /\ MapBegin

NextMap ==
    \/ MapStartThread /\ UNCHANGED <<oh_vars, cfg_vars, loc_vars, run_vars>>
    \/ MapRunReturned /\ UNCHANGED <<oh_vars, cfg_vars, loc_vars, run_vars>>
    \/ MapRunRaised /\ UNCHANGED <<oh_vars, cfg_vars, loc_vars, run_vars>>
    \/ MapRegister /\ UNCHANGED <<oh_vars, cfg_vars, loc_vars, run_vars>>
    \/ MapSleep /\ UNCHANGED <<oh_vars, cfg_vars, loc_vars, run_vars>>
    \/ InFirstRun /\ RunLoadFails /\ UNCHANGED <<oh_vars, cfg_vars, loc_vars, sched_vars, map_vars>>
    \/ InFirstRun /\ RunLoad /\ UNCHANGED <<oh_vars, cfg_vars, loc_vars, sched_vars, map_vars>>
    \/ InFirstRun /\ RunProcess /\ UNCHANGED <<oh_vars, cfg_vars, loc_vars, sched_vars, map_vars>>
    \/ InFirstRun /\ RunNoExceedances /\ UNCHANGED <<oh_vars, cfg_vars, loc_vars, sched_vars, map_vars>>
    \/ InFirstRun /\ RunSendSkipped /\ UNCHANGED <<oh_vars, cfg_vars, loc_vars, sched_vars, map_vars>>
    \/ InFirstRun /\ RunSendDelivered /\ UNCHANGED <<oh_vars, cfg_vars, loc_vars, sched_vars, map_vars>>
    \/ InFirstRun /\ RunSendFails /\ UNCHANGED <<oh_vars, cfg_vars, loc_vars, sched_vars, map_vars>>

\* the steps of run_scheduler itself
ThreadStep ==
    MapStartThread \/ MapRunReturned \/ MapRunRaised \/ MapRegister \/ MapSleep

\* the run called by the thread moves on: it leaves line 406, does one more
\* iteration of the loop of line 412, or ends.  Under NextMap these are
\* the steps of the run actions and one is possible whenever a run action is
RunAdvances ==
    /\ InFirstRun
    /\ \/ /\ run_pc = "start"
          /\ run_pc' \in {"loop", "returned", "raised"}
          /\ loc_i' = loc_i
       \/ /\ run_pc = "loop" /\ loc_i < Len(locs)
          /\ loc_i' = loc_i + 1
          /\ run_pc' = run_pc
       \/ /\ run_pc = "loop" /\ loc_i >= Len(locs)
          /\ run_pc' \in {"returned", "raised"}
          /\ loc_i' = loc_i

\* the thread is a thread of the operating system: it is scheduled again
\* and again while it has a step to take
SpecMap ==
    /\ InitMap /\ [][NextMap]_vars
    /\ WF_<<map_vars, runs>>(ThreadStep)
    /\ WF_<<run_pc, loc_i>>(RunAdvances)

-----------------------------------------------------------------------------
(* Properties *)

\* the elements of a sequence
Range(seq) == {seq[k] : k \in 1..Len(seq)}

StrictlyAscending(seq) == \A k \in 1..(Len(seq) - 1) : seq[k] < seq[k + 1]

\* process_location has evaluated the comprehension of lines 369-373
Detected ==
    \/ loc_pc \in {"expand", "collocate", "table"}
    \/ loc_pc = "done" /\ loc_result.status \in {"none", "agg"}

\* the 0-based indices of the samples that qualify: height at or above the
\* threshold, at an Oslo time at which the opening-hours predicate holds
Qualifying ==
    {i \in 0..(Len(wave_list) - 1) :
        /\ wave_list[i + 1].height >= WAVE_THRESHOLD
        /\ predicate(IS_OPEN.kind, IS_OPEN.dm, to_oslo(wave_list[i + 1].time))}

\* C1: exceedance detection returns exactly the qualifying indices, in
\* strictly ascending order (height >= threshold, equality included, and
\* open at the sample's Oslo time), and a location without qualifying
\* sample produces no aggregate.
C1_DetectExact ==
    Detected =>
        /\ StrictlyAscending(exceed_indices)
        /\ Range(exceed_indices) = Qualifying
        /\ (loc_pc = "done" => (loc_result.status = "none" <=> Qualifying = {}))
        /\ (loc_result.status = "agg" => Qualifying # {})

\* a series with a sample exactly at the threshold that is reported and a
\* sample at or above the threshold outside opening hours that is not
C1_Witness ==
    /\ loc_pc = "done"
    /\ loc_result.status = "agg"
    /\ \E k \in 1..Len(exceed_indices) :
          wave_list[exceed_indices[k] + 1].height = WAVE_THRESHOLD
    /\ \E i \in 0..(Len(wave_list) - 1) :
          /\ wave_list[i + 1].height >= WAVE_THRESHOLD
          /\ i \notin Range(exceed_indices)

\* process_location has built wave_objs (lines 377-382)
Expanded ==
    \/ loc_pc \in {"collocate", "table"}
    \/ loc_pc = "done" /\ loc_result.status = "agg"

\* the indices within WindowRadius of some exceedance index, clamped to the series
ExpectedWindow(exceed, total, r) ==
    {j \in 0..(total - 1) :
        \E k \in 1..Len(exceed) :
            Max2(0, exceed[k] - r) <= j /\ j <= Min2(total - 1, exceed[k] + r)}

\* C2: window expansion yields exactly the indices within the radius of some
\* exceedance index, clamped to 0..total-1, ascending and without duplicates;
\* it contains every exceedance index.
C2_WindowExact ==
    /\ Expanded =>
          LET want == ExpectedWindow(exceed_indices, Len(wave_list), WindowRadius)
          IN  /\ Len(wave_objs) = Cardinality(want)
              /\ Range(wave_objs) = {wave_list[j + 1] : j \in want}
              /\ \A k \in 1..(Len(wave_objs) - 1) : wave_objs[k].time < wave_objs[k + 1].time
              /\ \A k \in 1..Len(exceed_indices) :
                    wave_list[exceed_indices[k] + 1] \in Range(wave_objs)
    /\ expand_selected(<<10>>, 20, 3) = 7..13
    /\ expand_selected(<<10, 11>>, 20, 3) = 7..14
    /\ expand_selected(<<0>>, 20, 3) = 0..3
    /\ \A r \in 0..3 : \A c \in 0..7 :
          window_indices(c, 8, r) = {j \in 0..7 : c - r <= j /\ j <= c + r}

\* two exceedances whose windows overlap, clamped at the start of the
\* series, leaving the last sample out
C2_Witness ==
    /\ loc_pc = "collocate"
    /\ Len(exceed_indices) >= 2
    /\ exceed_indices[1] = 0
    /\ Len(wave_objs) < Len(wave_list)

\* the least distance in time between target and a sample of ws
MinDistance(ws, target) ==
    CHOOSE x \in {Abs(ws[k].time - target) : k \in 1..Len(ws)} :
        \A k \in 1..Len(ws) : x <= Abs(ws[k].time - target)

\* process_location has built weather_map (lines 384-389)
Collocated ==
    \/ loc_pc = "table"
    \/ loc_pc = "done" /\ loc_result.status = "agg"

\* C7: with a non-empty weather series, every selected wave sample has in
\* the collocated map a weather sample at the least distance in time over
\* the whole weather series, however large that distance; a wave at T with
\* weather at T-10 and T+50 gets T-10.
C7_NearestNoCutoff ==
    /\ (Collocated /\ Len(weather_list) > 0) =>
          /\ Range(weather_map) \subseteq Range(weather_list)
          /\ \A k \in 1..Len(wave_objs) :
                \E m \in 1..Len(weather_map) :
                    Abs(weather_map[m].time - wave_objs[k].time)
                        = MinDistance(weather_list, wave_objs[k].time)
    /\ nearest_weather(<<[time |-> 590, air_temperature |-> 1],
                         [time |-> 650, air_temperature |-> 2]>>, 600)
           = <<[time |-> 590, air_temperature |-> 1]>>

\* a selected wave sample more than three hours away from the only weather
\* sample is still matched with it
C7_Witness ==
    /\ loc_pc = "table"
    /\ Len(weather_list) = 1
    /\ Len(weather_map) = 1
    /\ \E k \in 1..Len(wave_objs) :
          Abs(weather_list[1].time - wave_objs[k].time) > 180

\* run has ended: it returned or an exception left it
RunEnded == run_pc \in {"returned", "raised"}

\* C3: in one run send_email is called at most once, and it is called if and
\* only if some location produced an aggregate; with no aggregate the run
\* ends without a notification attempt.
C3_SendIffAggregate ==
    /\ send_calls <= 1
    /\ Len(outbox) <= send_calls
    /\ ~RunEnded => send_calls = 0
    /\ RunEnded => (send_calls = 1 <=> Len(aggregates) > 0)

\* a run over several locations of which one produced an aggregate has
\* called send_email once
C3_Witness ==
    /\ run_pc = "returned"
    /\ Len(locs) >= 2
    /\ Len(aggregates) = 1
    /\ send_calls = 1

\* processing location id raises: one of its two fetches fails
Fails(id) == ~forecast[id].waves_ok \/ ~forecast[id].forecast_ok

RECURSIVE WithoutFailing(_)
WithoutFailing(ids) ==
    IF ids = <<>> THEN <<>>
    ELSE IF Fails(Head(ids)) THEN WithoutFailing(Tail(ids))
    ELSE <<Head(ids)>> \o WithoutFailing(Tail(ids))

\* the aggregates of a run over the locations ids, none of which fails
RECURSIVE AggregatesOf(_)
AggregatesOf(ids) ==
    IF ids = <<>> THEN <<>>
    ELSE LET r == process_location(IS_OPEN, Head(ids), forecast[Head(ids)])
         IN  IF r.status = "agg" THEN <<r.agg>> \o AggregatesOf(Tail(ids))
             ELSE AggregatesOf(Tail(ids))

RECURSIVE SumExceed(_)
SumExceed(aggs) ==
    IF aggs = <<>> THEN 0 ELSE Head(aggs).exceed_count + SumExceed(Tail(aggs))

\* the locations for which "Processing ..." was printed, in order
RECURSIVE ProcessingLines(_)
ProcessingLines(lines) ==
    IF lines = <<>> THEN <<>>
    ELSE IF Head(lines).ev = "processing"
    THEN <<Head(lines).loc>> \o ProcessingLines(Tail(lines))
    ELSE ProcessingLines(Tail(lines))

Processed == ProcessingLines(log)

\* C4: a location whose processing raises contributes no aggregate and is
\* not retried, the remaining locations are still processed, and the
\* aggregates and the exceedance total are those of a run without the
\* failing locations.
C4_FailureIsolated ==
    run_pc \in {"loop", "returned", "raised"} =>
        /\ loc_i <= Len(locs)
        /\ Processed = SubSeq(locs, 1, loc_i)
        /\ \A k \in 1..Len(aggregates) : ~Fails(aggregates[k].loc_id)
        /\ aggregates = AggregatesOf(WithoutFailing(SubSeq(locs, 1, loc_i)))
        /\ total_exceed = SumExceed(AggregatesOf(WithoutFailing(SubSeq(locs, 1, loc_i))))
        /\ (RunEnded /\ db_exists) => loc_i = Len(locs)

\* a run in which a location failed and a later location produced an aggregate
C4_Witness ==
    /\ run_pc = "returned"
    /\ \E i \in 1..Len(locs) :
          /\ Fails(locs[i])
          /\ \E k \in 1..Len(aggregates) : aggregates[k].loc_id > locs[i]

\* the first n rows of the store
FirstRows(n) == SubSeq(store, 1, Min2(n, Len(store)))

\* C8 as stated: run(limit = n) processes exactly the first n locations in
\* store order, each once, for every integer n >= 0 that is set, and all
\* locations when no limit is set.
C8_LimitAsStated ==
    RunEnded =>
        IF limit = <<>> THEN Processed = store
        ELSE limit[1] >= 0 => Processed = FirstRows(limit[1])

\* C8 as amended: run(limit = n) processes exactly the first n locations in
\* store order (all of them if there are fewer than n), each once and one
\* after the other, for every integer n >= 1; with limit 0, as with no
\* limit, it processes all locations.
C8_LimitAmended ==
    /\ run_pc \in {"loop", "returned", "raised"} => Processed = SubSeq(locs, 1, loc_i)
    /\ RunEnded =>
          IF limit = <<>> THEN Processed = store
          ELSE /\ limit[1] >= 1 => Processed = FirstRows(limit[1])
               /\ limit[1] = 0 => Processed = store

\* a run with limit 2 over three locations has processed the first two
C8_Witness ==
    /\ RunEnded
    /\ limit = <<2>>
    /\ Len(store) = 3
    /\ Processed = <<1, 2>>

\* C9: with the location store present a run ends without an exception
\* leaving run(), also when the notifier is unable to deliver.
C9_RunCompletes == db_exists => run_pc # "raised"

ReferenceP(d, m) == predicate(oh_kind, days_map, d * 1440 + m)

\* C5: the parsed predicate tests the weekday and the minute of the day
\* against the intervals with inclusive start and exclusive end; for
\* "Mo-Fr 05:00-17:00; Sa-Su 07:00-12:00" it is false at Monday 04:59, true
\* at Monday 05:00 and 16:59, false at Monday 17:00, true at Saturday 07:00
\* and false at Saturday 12:00.
C5_HalfOpenIntervals ==
    (oh_pc = "done" /\ oh_kind = "is_open") =>
        /\ oh_spec = SpecWeek =>
              /\ ~ReferenceP(0, 4 * 60 + 59)
              /\ ReferenceP(0, 5 * 60)
              /\ ReferenceP(0, 16 * 60 + 59)
              /\ ~ReferenceP(0, 17 * 60)
              /\ ReferenceP(5, 7 * 60)
              /\ ~ReferenceP(5, 12 * 60)
        /\ \A d \in 0..6 : \A k \in 1..Len(days_map[d]) :
              LET s == days_map[d][k][1]
                  e == days_map[d][k][2]
              IN  /\ ReferenceP(d, s)
                  /\ ReferenceP(d, e - 1)
                  /\ e < 1440 => ~ReferenceP(d, e)
                  /\ s > 0 => ~ReferenceP(d, s - 1)

\* the reference spec has been parsed
C5_Witness == oh_pc = "done" /\ oh_kind = "is_open" /\ oh_spec = SpecWeek

\* the empty spec, a blank spec, and 24/7 with and without padding
AlwaysOpenSpecs == {SpecEmpty, SpecBlank, Spec247, Spec247Padded}

\* C6: the empty spec (also whitespace only) and the literal 24/7 give a
\* predicate that is true on every weekday at every minute of the day.
C6_AlwaysOpen ==
    (oh_pc = "done" /\ oh_spec \in AlwaysOpenSpecs) =>
        /\ oh_kind # "raised"
        /\ \A d \in 0..6 : \A m \in 0..1439 : predicate(oh_kind, days_map, d * 1440 + m)

\* a blank spec has been parsed
C6_Witness == oh_pc = "done" /\ oh_spec = SpecBlank /\ oh_kind = "always"

\* tok is HH:MM-HH:MM with minutes below 60, a start before the end and an
\* end of at most 24:00
WellFormedRange(tok) ==
    /\ Len(tok) = 11
    /\ \A p \in {1, 2, 4, 5, 7, 8, 10, 11} : tok[p] \in Digits
    /\ tok[3] = ":" /\ tok[6] = "-" /\ tok[9] = ":"
    /\ Num(tok, 4, 2) < 60 /\ Num(tok, 10, 2) < 60
    /\ Num(tok, 1, 2) * 60 + Num(tok, 4, 2) < Num(tok, 7, 2) * 60 + Num(tok, 10, 2)
    /\ Num(tok, 7, 2) * 60 + Num(tok, 10, 2) <= 1440

RangeOfToken(tok) ==
    <<Num(tok, 1, 2) * 60 + Num(tok, 4, 2), Num(tok, 7, 2) * 60 + Num(tok, 10, 2)>>

\* the time tokens of the rule applied last
LastTimeTokens ==
    LET parts == SplitWS(oh_last)
    IN  IF HasDigit(parts[1]) THEN parts ELSE Tail(parts)

QualifyingOf(id) ==
    LET wl == forecast[id].wave_list
    IN  {i \in 0..(Len(wl) - 1) :
            /\ wl[i + 1].height >= WAVE_THRESHOLD
            /\ predicate(IS_OPEN.kind, IS_OPEN.dm, to_oslo(wl[i + 1].time))}

\* the locations of ids that are processed without error and have at least
\* one exceedance
Producing(ids) == {id \in Range(ids) : ~Fails(id) /\ QualifyingOf(id) # {}}

RECURSIVE SumQualifying(_)
SumQualifying(S) ==
    IF S = {} THEN 0
    ELSE LET id == CHOOSE x \in S : TRUE
         IN  Cardinality(QualifyingOf(id)) + SumQualifying(S \ {id})

\* the location ids of the aggregates, in the order of the list
AggregateIds == [k \in 1..Len(aggregates) |-> aggregates[k].loc_id]

\* C11: the location count of the subject is the number of locations that
\* produced an aggregate (at least one exceedance, processed without error)
\* and the exceedance count of the subject is the sum of exceed_count over
\* exactly those aggregates, whatever mix of successful, empty and failing
\* locations the run went through.
C11_SubjectCounts ==
    (RunEnded /\ send_calls = 1) =>
        /\ Len(report) = 1
        /\ Range(AggregateIds) = Producing(locs)
        /\ \A k \in 1..Len(aggregates) :
              aggregates[k].exceed_count = Cardinality(QualifyingOf(aggregates[k].loc_id))
        /\ report[1].subject.locations = Cardinality(Producing(locs))
        /\ report[1].subject.exceedances = SumExceed(aggregates)
        /\ report[1].subject.exceedances = SumQualifying(Producing(locs))

\* a run over a failing, an empty and a successful location whose subject
\* counts one location and two exceedances
C11_Witness ==
    /\ RunEnded
    /\ Len(report) = 1
    /\ \E i \in 1..Len(locs) : Fails(locs[i])
    /\ \E i \in 1..Len(locs) : ~Fails(locs[i]) /\ QualifyingOf(locs[i]) = {}
    /\ report[1].subject.locations = 1
    /\ report[1].subject.exceedances = 2

FirstExceedTime(id) ==
    LET wl == forecast[id].wave_list
        i == CHOOSE x \in QualifyingOf(id) : \A y \in QualifyingOf(id) : x <= y
    IN  wl[i + 1].time

\* C13: the sections of the text body and of the html body are in
\* non-decreasing order of the first exceedance time, there is exactly one
\* section per aggregate (none dropped, none repeated) and both bodies have
\* the sections in the same order.
C13_SectionsOrdered ==
    \A r \in 1..Len(report) :
        LET b == report[r].body
            h == report[r].html_body
        IN  /\ Len(b) = Len(aggregates)
            /\ Len(h) = Len(aggregates)
            /\ {b[k].loc_id : k \in 1..Len(b)} = Range(AggregateIds)
            /\ \A j \in 1..Len(b) : \A k \in 1..Len(b) :
                  j # k => b[j].loc_id # b[k].loc_id
            /\ \A k \in 1..(Len(b) - 1) :
                  FirstExceedTime(b[k].loc_id) <= FirstExceedTime(b[k + 1].loc_id)
            /\ \A k \in 1..Len(b) :
                  /\ h[k].loc_id = b[k].loc_id
                  /\ b[k].first = to_oslo(FirstExceedTime(b[k].loc_id))
                  /\ h[k].first = b[k].first

\* a report whose first section is not that of the first aggregate: a later
\* location has the earlier first exceedance
C13_Witness ==
    /\ Len(report) = 1
    /\ Len(aggregates) >= 2
    /\ report[1].body[1].loc_id # aggregates[1].loc_id
    /\ \E k \in 1..(Len(report[1].body) - 1) :
          FirstExceedTime(report[1].body[k].loc_id)
              = FirstExceedTime(report[1].body[k + 1].loc_id)

\* C14: build_combined_table emits exactly one data row per window sample,
\* in the order of the samples (ascending time), in the text table and in
\* the html table alike: no sample is dropped or repeated, whether or not a
\* weather sample is available for it.
C14_OneRowPerSample ==
    (loc_pc = "done" /\ loc_result.status = "agg") =>
        LET t == loc_result.agg.combined_table_text
            h == loc_result.agg.combined_table_html
        IN  /\ Len(t) = Len(wave_objs)
            /\ Len(h) = Len(wave_objs)
            /\ \A k \in 1..Len(wave_objs) :
                  /\ t[k].time = to_oslo(wave_objs[k].time)
                  /\ t[k].h = wave_objs[k].height
                  /\ h[k].time = t[k].time
                  /\ h[k].h = t[k].h
                  /\ h[k].wt = t[k].wt
                  /\ (t[k].wt = <<>>) <=> (weather_list = <<>>)
            /\ \A k \in 1..(Len(t) - 1) : t[k].time < t[k + 1].time

\* a table of at least four rows built without any weather sample
C14_Witness ==
    /\ loc_pc = "done"
    /\ loc_result.status = "agg"
    /\ weather_list = <<>>
    /\ Len(loc_result.agg.combined_table_text) >= 4
    /\ Len(loc_result.agg.combined_table_html) >= 4

\* C15: runs keep no memory of earlier runs: consecutive runs over the same
\* locations and the same fetched series, with at least one exceedance,
\* each hand a report to send_email, and the reports have the same subject
\* and the same text body.
C15_NoMemory ==
    /\ \A i \in 1..Len(report) : \A j \in 1..Len(report) :
          /\ report[i].subject = report[j].subject
          /\ report[i].body = report[j].body
    /\ (RunEnded /\ db_exists /\ Producing(locs) # {}) =>
          /\ Len(report) = runs
          /\ send_calls = runs

\* the second run has delivered the same alert again
C15_Witness ==
    /\ runs = 2
    /\ run_pc = "returned"
    /\ Len(report) = 2
    /\ Len(outbox) = 2
    /\ outbox[1] = outbox[2]
    /\ Len(locs) >= 2

\* C16: when the SMTP user, the password or the recipient (`to` or, failing
\* that, the user) is unavailable, send_email returns as a no-op: it prints
\* that it skips sending, attempts no connection or delivery and raises
\* nothing.
C16_NoOpWithoutCredentials ==
    (send_calls = 1 /\ (~smtp_cfg.user \/ ~smtp_cfg.pass \/ ~(smtp_cfg.to \/ smtp_cfg.user))) =>
        /\ run_pc = "returned"
        /\ outbox = <<>>
        /\ log[Len(log)] = [ev |-> "skip_sending", loc |-> 0]
        /\ \A k \in 1..Len(log) : log[k].ev \notin {"sending", "sent"}

\* send_email was called with the user set and the password missing
C16_Witness ==
    /\ send_calls = 1
    /\ run_pc = "returned"
    /\ smtp_cfg.user
    /\ ~smtp_cfg.pass
    /\ outbox = <<>>

\* C17: after parsing a spec other than the empty one and 24/7 every
\* weekday's interval list is sorted by start, consecutive intervals
\* (s1,e1),(s2,e2) satisfy e1 < s2 (overlapping and adjacent intervals are
\* merged), and every interval satisfies 0 <= start < end <= 1440.
C17_IntervalsNormalized ==
    (oh_pc = "done" /\ oh_kind = "is_open") =>
        \A d \in 0..6 :
            /\ \A k \in 1..Len(days_map[d]) :
                  /\ 0 <= days_map[d][k][1]
                  /\ days_map[d][k][1] < days_map[d][k][2]
                  /\ days_map[d][k][2] <= 1440
            /\ \A k \in 1..(Len(days_map[d]) - 1) :
                  /\ days_map[d][k][1] < days_map[d][k + 1][1]
                  /\ days_map[d][k][2] < days_map[d][k + 1][1]

\* 17:00-18:30 was added to Monday before 05:00-17:00: the two adjacent
\* intervals are sorted and merged into one, while Saturday keeps 05:00-17:00
C17_Witness ==
    /\ oh_pc = "done"
    /\ oh_kind = "is_open"
    /\ oh_spec = JoinRules(<<DayMoFr \o TimeNight, DayNone \o Time0517>>)
    /\ days_map[0] = << <<300, 1110>> >>
    /\ days_map[5] = << <<300, 1020>> >>

\* the rules of the spec being parsed
RulesOfSpec == rule_sep(Strip(oh_spec))

\* the rule carries day tokens: its first token has no digit
CarriesDayTokens(rule) ==
    LET parts == SplitWS(rule)
    IN  parts # <<>> /\ ~HasDigit(parts[1])

\* the day tokens of a rule that carries day tokens
DayTokensOf(rule) == SplitOn(SplitWS(rule)[1], ",")

\* weekday d lies in the range from a to b of the ordered week, which wraps
\* over Sunday when a is after b
InWeekRange(a, b, d) == IF a <= b THEN a <= d /\ d <= b ELSE d >= a \/ d <= b

\* the day token names weekday d or is a range of two weekday names
\* covering it, or is the literal ALL
TokenCovers(tok, d) ==
    \/ tok = DayNames[d + 1]
    \/ tok = TokALL
    \/ \E a \in 0..6 : \E b \in 0..6 :
          /\ tok = DayNames[a + 1] \o <<"-">> \o DayNames[b + 1]
          /\ InWeekRange(a, b, d)

Recognized(tok) == \E d \in 0..6 : TokenCovers(tok, d)

\* one of the day tokens of the rule names or covers weekday d
RuleCovers(rule, d) ==
    \E i \in 1..Len(DayTokensOf(rule)) : TokenCovers(DayTokensOf(rule)[i], d)

\* the rule carries day tokens and recognises none of them
AllDaysUnrecognized(rule) ==
    /\ CarriesDayTokens(rule)
    /\ \A i \in 1..Len(DayTokensOf(rule)) : ~Recognized(DayTokensOf(rule)[i])

\* weekday d is open at some minute
OpenSometime(d) == oh_kind = "is_open" /\ days_map[d] # <<>>

\* C18 as stated: an unrecognized day name is ignored: a rule that carries
\* day tokens applies to a weekday only if one of its tokens names or covers
\* it, so a weekday is open only if some rule without day tokens exists or
\* some rule names or covers it, and "Xx 05:00-17:00" opens no weekday.
C18_UnknownDaysIgnored ==
    oh_pc = "done" =>
        \A d \in 0..6 :
            OpenSometime(d) =>
                \E i \in 1..Len(RulesOfSpec) :
                    \/ ~CarriesDayTokens(RulesOfSpec[i])
                    \/ RuleCovers(RulesOfSpec[i], d)

\* C18 as amended: an unrecognized day name is ignored in a rule that also
\* has a recognized day token: such a rule applies to a weekday only if one
\* of its tokens names or covers it; a rule whose day tokens are all
\* unrecognized applies to all seven weekdays, so "Xx 05:00-17:00" opens
\* every weekday from 05:00 to 17:00 and "Mo-Xx,Fr 05:00-17:00" only Friday.
C18_UnknownDaysFallBack ==
    /\ oh_pc = "done" =>
          \A d \in 0..6 :
              OpenSometime(d) =>
                  \E i \in 1..Len(RulesOfSpec) :
                      \/ ~CarriesDayTokens(RulesOfSpec[i])
                      \/ RuleCovers(RulesOfSpec[i], d)
                      \/ AllDaysUnrecognized(RulesOfSpec[i])
    /\ (oh_pc = "done" /\ oh_spec = DayXx \o Time0517) =>
          \A d \in 0..6 : days_map[d] = << <<300, 1020>> >>
    /\ (oh_pc = "done" /\ oh_spec = DayMoXxFr \o Time0517) =>
          \A d \in 0..6 :
              days_map[d] = IF d = 4 THEN << <<300, 1020>> >> ELSE <<>>
    /\ (oh_pc = "rules" /\ oh_last # <<>> /\ AllDaysUnrecognized(oh_last)) =>
          Range(rule_days(oh_last).days) = 0..6
    /\ (oh_pc = "done" /\ oh_spec = SpecAll) =>
          \A d \in 0..6 : days_map[d] = << <<420, 720>> >>

\* "Xx 05:00-17:00" has been parsed and Sunday is open
C18_Witness ==
    /\ oh_pc = "done"
    /\ oh_spec = DayXx \o Time0517
    /\ predicate(oh_kind, days_map, 6 * 1440 + 300)

\* every rule of the spec starts with day tokens, all of them recognized,
\* and there is at least one rule
EveryRuleNamesDays ==
    /\ RulesOfSpec # <<>>
    /\ \A i \in 1..Len(RulesOfSpec) :
          /\ CarriesDayTokens(RulesOfSpec[i])
          /\ \A k \in 1..Len(DayTokensOf(RulesOfSpec[i])) :
                Recognized(DayTokensOf(RulesOfSpec[i])[k])

\* no rule of the spec names or covers weekday d
Unmatched(d) == \A i \in 1..Len(RulesOfSpec) : ~RuleCovers(RulesOfSpec[i], d)

\* C19: for a spec in which every rule starts with recognized day tokens, a
\* weekday matched by no rule stays closed: its interval list is empty and
\* the predicate is false on it at every minute of the day.
C19_UnmatchedClosed ==
    (oh_pc = "done" /\ EveryRuleNamesDays) =>
        /\ oh_kind = "is_open"
        /\ \A d \in 0..6 :
              Unmatched(d) =>
                  /\ days_map[d] = <<>>
                  /\ \A m \in 0..1439 : ~predicate(oh_kind, days_map, d * 1440 + m)

\* "Su-Mo 05:00-17:00; Sa-Su 07:00-12:00" has been parsed: Sunday, Monday
\* and Saturday are open, Tuesday to Friday are matched by no rule
C19_Witness ==
    /\ oh_pc = "done"
    /\ oh_spec = JoinRules(<<DaySuMo \o Time0517, DaySaSu \o Time0712>>)
    /\ EveryRuleNamesDays
    /\ {d \in 0..6 : Unmatched(d)} = 1..4
    /\ predicate(oh_kind, days_map, 0 * 1440 + 300)
    /\ predicate(oh_kind, days_map, 6 * 1440 + 300)
    /\ predicate(oh_kind, days_map, 5 * 1440 + 420)

\* one of the whitespace-separated tokens of the rule is off, in any case
ContainsOff(rule) ==
    \E i \in 1..Len(SplitWS(rule)) : Lower(SplitWS(rule)[i]) = TokOff

\* off is among the tokens after the day part: after the first token, or
\* among all tokens when the first one contains a digit
OffAfterDayPart(rule) ==
    LET parts == SplitWS(rule)
    IN  /\ parts # <<>>
        /\ \E i \in 1..Len(parts) :
              /\ i > 1 \/ HasDigit(parts[1])
              /\ Lower(parts[i]) = TokOff

\* the weekdays a rule is applied to: those named or covered by its day
\* tokens, and all seven when it has no day token or recognises none
MatchedDays(rule) ==
    IF ~CarriesDayTokens(rule) \/ AllDaysUnrecognized(rule) THEN 0..6
    ELSE {d \in 0..6 : RuleCovers(rule, d)}

\* the parser is about to apply the rule at the head of oh_rules
ApplyingRule == oh_pc = "rules" /\ oh_rules # <<>>

\* the step of the rule loop empties the lists of the matched weekdays and
\* leaves the others as they are
ClearsMatchedOnly(rule) ==
    /\ oh_kind' # "raised"
    /\ \A d \in 0..6 :
          days_map'[d] = IF d \in MatchedDays(rule) THEN <<>> ELSE days_map[d]

\* C20 as stated: when a rule contains the token off (any letter case), the
\* interval list of every weekday matched by the rule is empty right after
\* the rule is applied (earlier intervals discarded, ranges of the same rule
\* not added) and the lists of the other weekdays are unchanged.
C20_OffClears ==
    [][(ApplyingRule /\ ContainsOff(Head(oh_rules)))
          => ClearsMatchedOnly(Head(oh_rules))]_vars

\* C20 as amended: when off (any letter case) is among the tokens that
\* follow the day part of a rule, the interval list of every weekday matched
\* by the rule is empty right after the rule is applied and the lists of the
\* other weekdays are unchanged.
C20_OffAfterDaysClears ==
    [][(ApplyingRule /\ OffAfterDayPart(Head(oh_rules)))
          => ClearsMatchedOnly(Head(oh_rules))]_vars

\* "05:00-17:00; Sa-Su OFF 07:00-12:00": the second rule has just been
\* applied, Saturday lost 05:00-17:00 and did not get 07:00-12:00, Monday
\* keeps 05:00-17:00
C20_Witness ==
    /\ oh_pc = "rules"
    /\ oh_spec = JoinRules(<<DayNone \o Time0517, DaySaSu \o TimeOffUpper>>)
    /\ oh_last = DaySaSu \o TimeOffUpper
    /\ OffAfterDayPart(oh_last)
    /\ days_map[5] = <<>>
    /\ days_map[6] = <<>>
    /\ days_map[0] = << <<300, 1020>> >>

\* the time tokens of a rule: all tokens when the first has a digit, else
\* the tokens after the first
TimeTokensOf(rule) ==
    LET parts == SplitWS(rule)
    IN  IF HasDigit(parts[1]) THEN parts ELSE Tail(parts)

\* the comma- and space-separated items of the time part of a rule
RangeItems(rule) == SplitOn(JoinComma(TimeTokensOf(rule)), ",")

\* the item reads H:MM-H:MM or HH:MM-HH:MM from its first to its last character
IsRangeItem(item) ==
    time_pat_at(item, 1) # <<>> /\ time_pat_at(item, 1)[5] = Len(item) + 1

StartOf(item) == time_pat_at(item, 1)[1] * 60 + time_pat_at(item, 1)[2]
EndOf(item) == time_pat_at(item, 1)[3] * 60 + time_pat_at(item, 1)[4]

\* the range starts strictly before it ends
StartsBeforeEnd(item) == StartOf(item) < EndOf(item)

\* the ranges of the items that start before they end (and lie in the day),
\* in the order of the items
RECURSIVE KeptRanges(_)
KeptRanges(items) ==
    IF items = <<>> THEN <<>>
    ELSE LET it == Head(items)
         IN  IF /\ IsRangeItem(it)
                /\ StartsBeforeEnd(it)
                /\ StartOf(it) < 1440 /\ EndOf(it) <= 1440
             THEN << <<StartOf(it), EndOf(it)>> >> \o KeptRanges(Tail(items))
             ELSE KeptRanges(Tail(items))

\* the rule at the head of oh_rules has an item whose start is not before
\* its end
HasUnorderedRange(rule) ==
    \E i \in 1..Len(RangeItems(rule)) :
        IsRangeItem(RangeItems(rule)[i]) /\ ~StartsBeforeEnd(RangeItems(rule)[i])

\* C21: a time range whose start is not strictly before its end (overnight
\* such as 22:00-02:00, empty such as 8:00-8:00) is rejected and adds no
\* interval to any weekday, while the other ranges of the same rule are
\* still added to the weekdays of the rule.
C21_UnorderedRangeRejected ==
    [][(ApplyingRule /\ ~OffAfterDayPart(Head(oh_rules)))
          => LET matched == MatchedDays(Head(oh_rules))
                 kept == KeptRanges(RangeItems(Head(oh_rules)))
             IN  /\ oh_kind' # "raised"
                 /\ days_map' = [d \in 0..6 |->
                                    IF d \in matched THEN days_map[d] \o kept
                                    ELSE days_map[d]]
                 /\ \A d \in 0..6 : \A k \in 1..Len(days_map'[d]) :
                       days_map'[d][k][1] < days_map'[d][k][2]]_vars

\* "Mo-Fr 22:00-02:00,17:00-18:30" has just been applied: Monday holds
\* 17:00-18:30 alone and Saturday nothing
C21_Witness ==
    /\ oh_pc = "rules"
    /\ oh_last = DayMoFr \o TimeNight
    /\ oh_spec = DayMoFr \o TimeNight
    /\ HasUnorderedRange(oh_last)
    /\ days_map[0] = << <<1020, 1110>> >>
    /\ days_map[5] = <<>>

\* the first token of the rule contains a digit
FirstTokenHasDigit(rule) == SplitWS(rule) # <<>> /\ HasDigit(SplitWS(rule)[1])

\* the comma-separated items of all tokens of the rule, the first included
AllItems(rule) == SplitOn(JoinComma(SplitWS(rule)), ",")

\* the range written in the first item of the rule, if it is one that is kept
FirstItemRange(rule) == KeptRanges(<<AllItems(rule)[1]>>)

\* C22: a rule whose first token contains a digit has no day restriction:
\* each of its accepted time ranges is added to all seven weekdays, and the
\* first token itself is read as a time range.
C22_DigitFirstAllDays ==
    [][(ApplyingRule /\ FirstTokenHasDigit(Head(oh_rules))
            /\ ~OffAfterDayPart(Head(oh_rules)))
          => LET kept == KeptRanges(AllItems(Head(oh_rules)))
                 first == FirstItemRange(Head(oh_rules))
             IN  /\ oh_kind' # "raised"
                 /\ \A d \in 0..6 :
                       /\ days_map'[d] = days_map[d] \o kept
                       /\ \A k \in 1..Len(first) : first[k] \in Range(days_map'[d])]_vars

\* "Mo-Fr 05:00-17:00; 07:00-12:00": the second rule has just been applied
\* and 07:00-12:00 was added to Monday and to Saturday
C22_Witness ==
    /\ oh_pc = "rules"
    /\ oh_spec = JoinRules(<<DayMoFr \o Time0517, DayNone \o Time0712>>)
    /\ oh_last = DayNone \o Time0712
    /\ FirstTokenHasDigit(oh_last)
    /\ days_map[0] = << <<300, 1020>>, <<420, 720>> >>
    /\ days_map[5] = << <<420, 720>> >>

\* the weather sample nearest_weather finds for the k-th selected wave sample
MatchOf(k) == nearest_weather(weather_list, wave_objs[k].time)[1]

\* the first selected wave sample whose match has the timestamp t
FirstMatching(t) ==
    CHOOSE k \in 1..Len(wave_objs) :
        /\ MatchOf(k).time = t
        /\ \A j \in 1..(k - 1) : MatchOf(j).time # t

\* the collocation loop has run
CollocationDone ==
    \/ loc_pc = "table"
    \/ loc_pc = "done" /\ loc_result.status = "agg"

\* C23: the collocated weather map holds at most one entry per weather
\* timestamp: when several selected wave samples match a weather sample of
\* the same timestamp, the entry inserted for the earliest of them is kept
\* and later matches neither replace it nor add an entry, so the map never
\* has more entries than selected wave samples or than weather samples.
C23_OneEntryPerTimestamp ==
    CollocationDone =>
        /\ \A i \in 1..Len(weather_map) : \A j \in 1..Len(weather_map) :
              weather_map[i].time = weather_map[j].time => i = j
        /\ Len(weather_map) <= Len(wave_objs)
        /\ Len(weather_map) <= Len(weather_list)
        /\ weather_list # <<>> =>
              /\ \A k \in 1..Len(wave_objs) :
                    \E i \in 1..Len(weather_map) : weather_map[i].time = MatchOf(k).time
              /\ \A i \in 1..Len(weather_map) :
                    /\ \E k \in 1..Len(wave_objs) : MatchOf(k).time = weather_map[i].time
                    /\ weather_map[i] = MatchOf(FirstMatching(weather_map[i].time))
              /\ \A i \in 1..(Len(weather_map) - 1) :
                    FirstMatching(weather_map[i].time)
                        < FirstMatching(weather_map[i + 1].time)
        /\ weather_list = <<>> => weather_map = <<>>

\* six selected wave samples were matched to three weather samples, the
\* last of which is the match of more than one wave sample
C23_Witness ==
    /\ loc_pc = "table"
    /\ Len(wave_objs) = 6
    /\ Len(weather_map) = 3
    /\ MatchOf(5).time = weather_map[3].time
    /\ MatchOf(6).time = weather_map[3].time

\* the permutations of 1..n
OrdersOf(n) ==
    {p \in [1..n -> 1..n] : \A i \in 1..n : \A j \in 1..n : p[i] = p[j] => i = j}

\* the location list ids taken in the order p
Permuted(ids, p) == [k \in 1..Len(ids) |-> ids[p[k]]]

\* the location ids of the sections of a text body, in order
SectionIds(body) == [k \in 1..Len(body) |-> body[k].loc_id]

\* the first exceedance times of the sections of a text body, in order
SectionFirsts(body) == [k \in 1..Len(body) |-> body[k].first]

\* the text body of the report of a run over the location list ids
BodyOver(ids) ==
    LET aggs == AggregatesOf(WithoutFailing(ids))
    IN  build_report(aggs, SumExceed(aggs)).body

\* what processing each location of the list ids gives, in the order of ids
OutcomesOf(ids) ==
    [k \in 1..Len(ids) |->
        IF Fails(ids[k]) THEN [status |-> "raised"]
        ELSE process_location(IS_OPEN, ids[k], forecast[ids[k]])]

\* the text body of the report of a run whose locations gave, in order, the
\* outcomes of the list outcomes
BodyFrom(outcomes) ==
    LET found == SelectSeq(outcomes, LAMBDA r : r.status = "agg")
        aggs == [k \in 1..Len(found) |-> found[k].agg]
    IN  build_report(aggs, SumExceed(aggs)).body

\* the position of location id in the list ids
PositionIn(ids, id) == CHOOSE k \in 1..Len(ids) : ids[k] = id

\* no two aggregates of the run have the same first exceedance time
DistinctFirstTimes ==
    \A j \in 1..Len(aggregates) : \A k \in 1..Len(aggregates) :
        aggregates[j].first_time = aggregates[k].first_time => j = k

\* C24 as stated: the order of the sections is determined by the first
\* exceedance times alone: a run over any permutation of the same location
\* list yields the same section order.
C24_OrderIndependent ==
    report # <<>> =>
        \A p \in OrdersOf(Len(locs)) :
            SectionIds(BodyOver(Permuted(locs, p))) = SectionIds(report[1].body)

\* C24 as amended: a run over any permutation of the same location list
\* yields the same sequence of first exceedance times, and the same section
\* order when no two aggregates share a first exceedance time; sections
\* with the same first exceedance time are in the order in which their
\* locations were processed.
C24_OrderUpToTies ==
    report # <<>> =>
        LET outcomes == OutcomesOf(locs)
        IN  \A p \in OrdersOf(Len(locs)) :
            LET ids == Permuted(locs, p)
                alt == BodyFrom(Permuted(outcomes, p))
            IN  /\ SectionFirsts(alt) = SectionFirsts(report[1].body)
                /\ DistinctFirstTimes => SectionIds(alt) = SectionIds(report[1].body)
                /\ \A j \in 1..Len(alt) : \A k \in 1..Len(alt) :
                      (j < k /\ alt[j].first = alt[k].first) =>
                          PositionIn(ids, alt[j].loc_id) < PositionIn(ids, alt[k].loc_id)

\* a report of three sections: the location processed last comes first,
\* the two others have the same first exceedance time and are in the order
\* of processing
C24_Witness ==
    /\ run_pc = "returned"
    /\ report # <<>>
    /\ locs = <<1, 2, 3>>
    /\ SectionIds(report[1].body) = <<3, 1, 2>>
    /\ report[1].body[2].first = report[1].body[3].first
    /\ report[1].body[1].first < report[1].body[2].first

\* minute m lies in [start, end) of some interval of the list rngs
InSomeInterval(rngs, m) ==
    \E k \in 1..Len(rngs) : rngs[k][1] <= m /\ m < rngs[k][2]

\* the starts and ends of the intervals of the list rngs
Endpoints(rngs) == {rngs[k][1] : k \in 1..Len(rngs)} \cup {rngs[k][2] : k \in 1..Len(rngs)}

\* the minutes at which membership in the intervals held before or after the
\* step can change, and midnight: between two of them membership is constant,
\* so agreement at these minutes is agreement at every minute of 0..1439
Breakpoints(d) ==
    ({0} \cup Endpoints(days_map[d]) \cup Endpoints(days_map'[d])) \cap (0..1439)

\* the parser is about to sort and merge the interval lists
Sweeping == oh_pc = "rules" /\ oh_rules = <<>>

\* C25: the sort-and-merge sweep preserves membership: for every weekday d
\* and minute m the parsed predicate is true at (d, m) if and only if m lies
\* in [start, end) of some interval held for d just before the sweep.
C25_SweepPreservesMembership ==
    [][Sweeping =>
          /\ oh_kind' = "is_open"
          /\ \A d \in 0..6 : \A m \in Breakpoints(d) :
                predicate(oh_kind', days_map', d * 1440 + m)
                    <=> InSomeInterval(days_map[d], m)]_vars

\* "Mo-Fr 05:00-17:00; 07:00-12:00" has been parsed: on Monday 07:00-12:00
\* was absorbed by 05:00-17:00, which is still open at 16:59
C25_Witness ==
    /\ oh_pc = "done"
    /\ oh_kind = "is_open"
    /\ oh_spec = JoinRules(<<DayMoFr \o Time0517, DayNone \o Time0712>>)
    /\ days_map[0] = << <<300, 1020>> >>
    /\ predicate(oh_kind, days_map, 0 * 1440 + 1019)
    /\ days_map[5] = << <<420, 720>> >>

\* the intervals every weekday holds after the rules are applied from left
\* to right: for weekday d, the kept ranges of the rules matching d that come
\* after the last off rule matching d
RECURSIVE HeldAfter(_)
HeldAfter(rules) ==
    IF rules = <<>> THEN [d \in 0..6 |-> <<>>]
    ELSE LET last == rules[Len(rules)]
             before == HeldAfter(SubSeq(rules, 1, Len(rules) - 1))
             matched == MatchedDays(last)
             off == OffAfterDayPart(last)
             kept == IF off THEN <<>> ELSE KeptRanges(RangeItems(last))
         IN  [d \in 0..6 |->
                 IF d \notin matched THEN before[d]
                 ELSE IF off THEN <<>>
                 ELSE before[d] \o kept]

\* "Sa-Su off; 07:00-12:00" and the same two rules in the opposite order
SpecOffThenOpen == JoinRules(<<DaySaSu \o TimeOff, DayNone \o Time0712>>)
SpecOpenThenOff == JoinRules(<<DayNone \o Time0712, DaySaSu \o TimeOff>>)

\* C26: rules are applied strictly left to right (once the last rule is
\* applied every weekday holds what HeldAfter gives for the rules in the
\* order of the spec), so the result depends on their order: a rule with time ranges that follows an off rule for the
\* same weekday re-opens the weekday for those ranges, and the same two
\* rules in the opposite order leave the weekday closed.
C26_LeftToRight ==
    /\ (oh_pc = "rules" /\ oh_rules = <<>>) => days_map = HeldAfter(RulesOfSpec)
    /\ (oh_pc = "done" /\ oh_spec = SpecOffThenOpen) =>
          \A d \in 0..6 : days_map[d] = << <<420, 720>> >>
    /\ (oh_pc = "done" /\ oh_spec = SpecOpenThenOff) =>
          \A d \in 0..6 :
              days_map[d] = IF d \in {5, 6} THEN <<>> ELSE << <<420, 720>> >>

\* "Sa-Su off; 07:00-12:00" has been parsed and Saturday is open at 07:00
C26_Witness ==
    /\ oh_pc = "done"
    /\ oh_spec = SpecOffThenOpen
    /\ OffAfterDayPart(RulesOfSpec[1])
    /\ 5 \in MatchedDays(RulesOfSpec[1])
    /\ predicate(oh_kind, days_map, 5 * 1440 + 420)

\* the least absolute time difference between a weather sample of the full
\* series and time t
LeastDistance(t) ==
    CHOOSE x \in {Abs(weather_list[i].time - t) : i \in 1..Len(weather_list)} :
        \A i \in 1..Len(weather_list) : x <= Abs(weather_list[i].time - t)

\* two samples of the full weather series are equally near to time t, and
\* none is nearer
EquallyNear(t) ==
    \E i \in 1..Len(weather_list) : \E j \in 1..Len(weather_list) :
        /\ i # j
        /\ Abs(weather_list[i].time - t) = LeastDistance(t)
        /\ Abs(weather_list[j].time - t) = LeastDistance(t)

\* C27: in every row of a location table the weather sample shown has the
\* least absolute time difference to the wave time of the row among all
\* weather samples fetched for the location: the nearest match over the
\* collocated map selects the sample nearest_weather selects over the full
\* weather series, also when two weather samples are equally near.
C27_RowShowsNearest ==
    (loc_pc = "done" /\ loc_result.status = "agg" /\ weather_list # <<>>) =>
        LET t == loc_result.agg.combined_table_text
            h == loc_result.agg.combined_table_html
        IN  \A k \in 1..Len(wave_objs) :
                /\ t[k].wt = nearest_weather(weather_list, wave_objs[k].time)
                /\ h[k].wt = t[k].wt
                /\ Abs(t[k].wt[1].time - wave_objs[k].time)
                       = LeastDistance(wave_objs[k].time)

\* a table whose second row has its wave time midway between two weather
\* samples, both of them in the collocated map
C27_Witness ==
    /\ loc_pc = "done"
    /\ loc_result.status = "agg"
    /\ Len(weather_map) = 3
    /\ Len(wave_objs) >= 3
    /\ EquallyNear(wave_objs[2].time)
    /\ loc_result.agg.combined_table_text[2].wt = <<weather_map[2]>>
    /\ Abs(weather_map[3].time - wave_objs[2].time) = LeastDistance(wave_objs[2].time)

\* the heights of the qualifying samples
QualifyingHeights == {wave_list[i + 1].height : i \in Qualifying}

\* C28: every aggregate returned by process_location has an exceedance
\* count of at least 1 that equals the number of detected exceedance
\* indices; its maximum height is the maximum over the exceedance samples
\* only (at least the threshold, and not raised by a higher sample outside
\* opening hours, even one inside the window); its first exceedance time is
\* the time of the lowest exceedance index, the earliest exceedance time.
C28_AggregateFields ==
    (loc_pc = "done" /\ loc_result.status = "agg") =>
        LET agg == loc_result.agg
        IN  /\ agg.exceed_count >= 1
            /\ agg.exceed_count = Len(exceed_indices)
            /\ agg.exceed_count = Cardinality(Qualifying)
            /\ agg.max_height \in QualifyingHeights
            /\ \A h \in QualifyingHeights : h <= agg.max_height
            /\ agg.max_height >= WAVE_THRESHOLD
            /\ agg.first_time = wave_list[exceed_indices[1] + 1].time
            /\ \A i \in Qualifying :
                  /\ exceed_indices[1] <= i
                  /\ agg.first_time <= wave_list[i + 1].time

\* an aggregate with a maximum height of 0.5 m although the first sample of
\* the series, outside opening hours and inside the window, is 0.6 m
C28_Witness ==
    /\ loc_pc = "done"
    /\ loc_result.status = "agg"
    /\ loc_result.agg.max_height = 5
    /\ loc_result.agg.exceed_count = 2
    /\ wave_list[1].height = 6
    /\ 0 \notin Qualifying
    /\ wave_objs[1] = wave_list[1]

\* the configuration is the default one for opening_hours: there is no
\* file, or the file does not set the key
DefaultOpeningHours == ~config_file.exists \/ config_file.opening_hours = NoValue

\* the import of wave_alert has ended
StartEnded == start_pc \in {"ready", "raised"}

\* a few wave series on which detection is compared with the threshold test
ProbeSeries == {wave_series(t0, <<4, 5, 6>>) : t0 \in WaveStarts}

\* the 0-based indices of the samples of wl at or above the threshold
AtOrAbove(wl) == {i \in 0..(Len(wl) - 1) : wl[i + 1].height >= WAVE_THRESHOLD}

\* C29: with the default configuration (no config file, or a file that does
\* not set opening_hours) start-up builds the opening-hours predicate
\* without error, and it is the always-true predicate, so that detection is
\* gated by the threshold alone.
C29_DefaultAlwaysOpen ==
    (StartEnded /\ DefaultOpeningHours) =>
        /\ start_pc = "ready"
        /\ IS_OPEN.kind = "always"
        /\ \A wl \in ProbeSeries : Range(detect_exceed(IS_OPEN, wl)) = AtOrAbove(wl)

\* the thread is at a call of the alert run
AlertInvoked == thread_pc = "first_run" /\ run_pc = "start"

\* C30: when SCHEDULED_TASKS is set, the scheduler thread of app_map invokes
\* the alert run at start-up and then again and again for as long as the
\* process lives: under fair scheduling of the thread the alert run is
\* invoked infinitely often, not only once.
C30_InvokedInfinitelyOften == scheduled_tasks => []<>AlertInvoked

====
